---------------------------- MODULE Spec2Model ----------------------------
(***************************************************************************)
(* Model of textoslides: the template-analysis and slide-synthesis         *)
(* pipeline (TemplateAnalyzer and PresentationBuilder of server.js), the   *)
(* Express application around it, and the browser wizard (public/app.js).  *)
(*                                                                         *)
(* Text is a sequence of tokens (a token is one character, or a run of     *)
(* characters that the code never splits); string concatenation is \o.     *)
(* An XML part is the record of the elements and attribute values the code *)
(* writes into it.  A JavaScript value that may be undefined, a string or  *)
(* an array is a record [type, value].                                     *)
(***************************************************************************)
EXTENDS Integers, Sequences, FiniteSets, TLC

VARIABLES
    \* PresentationBuilder.buildPresentation
    slideStructure,   \* the argument: [totalSlides, slides]
    zip,              \* the JSZip under construction: entry path -> content
    i,                \* the loop index of addSlides
    bpc,              \* position inside buildPresentation
    buildResult,      \* what buildPresentation returned or threw
    \* TemplateAnalyzer.analyzeTemplate
    templateBuffer,   \* the argument: what loadAsync makes of the bytes
    apc,              \* position inside analyzeTemplate
    slideLayouts,     \* analysis.slideLayouts once extractLayouts returned
    theme,            \* analysis.theme once extractTheme returned
    images,           \* analysis.images once extractImages returned
    analysisResult,   \* what analyzeTemplate returned or threw
    \* PresentationBuilder.escapeXml applied to one text
    text,
    escaped,
    \* TemplateAnalyzer.determineLayoutType applied to one layout text
    xml,
    layoutType,
    \* The Express application: one element per request in progress
    nodeEnv,          \* process.env.NODE_ENV
    hits,             \* the counter of the rate limiter for the client, in the current window
    requests,         \* what each request carries and what the outside answers to its calls
    rpc,              \* position of each request in the middleware chain and its handler
    locals,           \* the local variables of each handler
    archives,         \* the JSZip objects of analyzeTemplate, by identity
    packages,         \* the JSZip objects of buildPresentation, by identity
    responses,        \* the responses sent for each request
    calls,            \* the core components each request has invoked, in order
    \* The browser wizard (public/app.js)
    appData,          \* TextToSlidesApp.appData
    dom,              \* the properties of the page's elements that the wizard reads or writes
    fetches,          \* the analyze-template requests sent and those still in flight
    gpc               \* position inside generatePresentation

builderVars  == <<slideStructure, zip, i, bpc, buildResult>>
analyzerVars == <<templateBuffer, apc, slideLayouts, theme, images, analysisResult>>
escapeVars   == <<text, escaped>>
layoutVars   == <<xml, layoutType>>
serverVars   == <<nodeEnv, hits, requests, rpc, locals, archives, packages, responses, calls>>
wizardVars   == <<appData, dom, fetches, gpc>>
vars == <<slideStructure, zip, i, bpc, buildResult,
          templateBuffer, apc, slideLayouts, theme, images, analysisResult,
          text, escaped, xml, layoutType,
          nodeEnv, hits, requests, rpc, locals, archives, packages, responses, calls,
          appData, dom, fetches, gpc>>

---------------------------------------------------------------------------
(* Bounds of the model *)

MaxSlides == 2
MaxEntries == 3
MaxLayoutFiles == 6
MaxTextLen == 4
MaxXmlLen == 4
MaxRequests == 2
MaxSelections == 2

---------------------------------------------------------------------------
(* Text *)

\* All token sequences over alphabet of length at most n.
RECURSIVE StringsUpTo(_, _)
StringsUpTo(alphabet, n) ==
    IF n = 0 THEN {<<>>}
    ELSE LET shorter == StringsUpTo(alphabet, n - 1)
         IN  shorter \cup {Append(s, c) : s \in {t \in shorter : Len(t) = n - 1}, c \in alphabet}

DigitChars == <<"0", "1", "2", "3", "4", "5", "6", "7", "8", "9">>

\* Number-to-string conversion of a template literal `${n}`, n >= 0.
RECURSIVE Dec(_)
Dec(n) == IF n < 10 THEN <<DigitChars[n + 1]>>
          ELSE Dec(n \div 10) \o <<DigitChars[(n % 10) + 1]>>

\* String.prototype.startsWith / endsWith
startsWith(s, prefix) ==
    /\ Len(prefix) <= Len(s)
    /\ SubSeq(s, 1, Len(prefix)) = prefix

endsWith(s, suffix) ==
    /\ Len(suffix) <= Len(s)
    /\ SubSeq(s, Len(s) - Len(suffix) + 1, Len(s)) = suffix

\* String.prototype.includes
includes(s, needle) ==
    \E k \in 0..(Len(s) - Len(needle)) : SubSeq(s, k + 1, k + Len(needle)) = needle

\* Array.prototype.join
RECURSIVE join(_, _)
join(arr, sep) ==
    IF Len(arr) = 0 THEN <<>>
    ELSE IF Len(arr) = 1 THEN arr[1]
    ELSE arr[1] \o sep \o join(Tail(arr), sep)

\* String.prototype.replace(/c/g, rep) for a one-character pattern c
RECURSIVE ReplaceAll(_, _, _)
ReplaceAll(s, c, rep) ==
    IF s = <<>> THEN <<>>
    ELSE (IF Head(s) = c THEN rep ELSE <<Head(s)>>) \o ReplaceAll(Tail(s), c, rep)

\* JavaScript values
JSUndefined == [type |-> "undefined", value |-> <<>>]
JSString(s) == [type |-> "string", value |-> s]
JSArray(a)  == [type |-> "array", value |-> a]

\* ToBoolean of such a value: undefined and '' are falsy, an array is truthy
Truthy(v) == \/ v.type = "array"
             \/ v.type = "string" /\ v.value # <<>>

---------------------------------------------------------------------------
(* PresentationBuilder *)

\* The characters that are tokens of their own
Amp == "&"
Lt == "<"
Gt == ">"
Quot == "\""
Apos == "'"
Semi == ";"
Slash == "/"
Bullet == "{bullet}"     \* U+2022
Newline == "{LF}"        \* U+000A

\* Faulty variant of escapeXml: the ampersand pass runs last
escapeXmlAmpLast(t) ==
    LET s1 == ReplaceAll(t,  Lt,   <<Amp, "lt", Semi>>)
        s2 == ReplaceAll(s1, Gt,   <<Amp, "gt", Semi>>)
        s3 == ReplaceAll(s2, Quot, <<Amp, "quot", Semi>>)
        s4 == ReplaceAll(s3, Apos, <<Amp, "apos", Semi>>)
        s5 == ReplaceAll(s4, Amp,  <<Amp, "amp", Semi>>)
    IN  s5

\* escapeXml: five replace passes over the whole text, in this order
escapeXml(t) ==
    LET s1 == ReplaceAll(t,  Amp,  <<Amp, "amp", Semi>>)
        s2 == ReplaceAll(s1, Lt,   <<Amp, "lt", Semi>>)
        s3 == ReplaceAll(s2, Gt,   <<Amp, "gt", Semi>>)
        s4 == ReplaceAll(s3, Quot, <<Amp, "quot", Semi>>)
        s5 == ReplaceAll(s4, Apos, <<Amp, "apos", Semi>>)
    IN  s5

\* Entry names of the package
ContentTypesPath == <<"[Content_Types]", ".xml">>
RootRelsPath == <<"_rels", Slash, ".rels">>
PresentationPath == <<"ppt", Slash, "presentation", ".xml">>
PresentationRelsPath == <<"ppt", Slash, "_rels", Slash, "presentation", ".xml", ".rels">>

\* Faulty variant of SlidePath: the file is named after the 0-based index
SlidePathZeroBased(k) == <<"ppt", Slash, "slides", Slash, "slide">> \o Dec(k - 1) \o <<".xml">>

\* `ppt/slides/slide${k}.xml`
SlidePath(k) == <<"ppt", Slash, "slides", Slash, "slide">> \o Dec(k) \o <<".xml">>

FirstSlideId == 256

\* <Override PartName="/ppt/slides/slide${i + 1}.xml" ContentType=".../slide+xml"/>
SlideOverride(ix) ==
    [PartName |-> <<Slash, "ppt", Slash, "slides", Slash, "slide">> \o Dec(ix + 1) \o <<".xml">>,
     ContentType |-> "presentationml.slide+xml"]

\* Faulty variant of SldId: the relationship id is not advanced with the index
SldIdSameRid(ix) == [id |-> Dec(FirstSlideId + ix), rid |-> <<"rId">> \o Dec(1)]

\* Faulty variant of SldIds: every slide gets the first id
SldIdsConstant(slides) ==
    [k \in 1..Len(slides) |-> [id |-> Dec(FirstSlideId), rid |-> <<"rId">> \o Dec(k)]]

\* <p:sldId id="${256 + i}" r:id="rId${i + 1}"/>
SldId(ix) == [id |-> Dec(FirstSlideId + ix), rid |-> <<"rId">> \o Dec(ix + 1)]

\* Faulty variant of SlideRelationship: the target is named after the 0-based index
SlideRelationshipZeroBased(ix) ==
    [Id |-> <<"rId">> \o Dec(ix + 1),
     Type |-> "relationships/slide",
     Target |-> <<"slides", Slash, "slide">> \o Dec(ix) \o <<".xml">>]

\* <Relationship Id="rId${i + 1}" Type=".../slide" Target="slides/slide${i + 1}.xml"/>
SlideRelationship(ix) ==
    [Id |-> <<"rId">> \o Dec(ix + 1),
     Type |-> "relationships/slide",
     Target |-> <<"slides", Slash, "slide">> \o Dec(ix + 1) \o <<".xml">>]

\* slides.map((_, i) => ...): one element per slide, i counted from 0
SlideOverrides(slides) == [k \in 1..Len(slides) |-> SlideOverride(k - 1)]

SldIds(slides) == [k \in 1..Len(slides) |-> SldId(k - 1)]

SlideRelationships(slides) == [k \in 1..Len(slides) |-> SlideRelationship(k - 1)]

ContentTypesXml(slides) ==
    [Default |-> <<[Extension |-> "rels", ContentType |-> "package.relationships+xml"],
                   [Extension |-> "xml", ContentType |-> "application/xml"]>>,
     Override |-> <<[PartName |-> <<Slash, "ppt", Slash, "presentation", ".xml">>,
                     ContentType |-> "presentationml.presentation.main+xml"]>>
                  \o SlideOverrides(slides)]

RootRelsXml ==
    [Relationship |-> <<[Id |-> <<"rId">> \o <<"1">>,
                         Type |-> "relationships/officeDocument",
                         Target |-> <<"ppt", Slash, "presentation", ".xml">>]>>]

PresentationXml(slides) ==
    [sldIdLst |-> SldIds(slides),
     sldSz |-> [cx |-> "9144000", cy |-> "6858000", type |-> "screen4x3"]]

PresentationRelsXml(slides) ==
    [Relationship |-> SlideRelationships(slides)]

\* zip.file(name, data): creates the entry or replaces it.  Only file entries
\* are modelled; folder entries the library may add for the parent directories
\* of name hold no content and are no part of this model.
ZipFile(z, name, data) ==
    [p \in (DOMAIN z) \cup {name} |-> IF p = name THEN data ELSE z[p]]

EmptyZip == [p \in {} |-> <<>>]

\* addBasicStructure: the four structural entries, generated from slides.length
addBasicStructure(z, structure) ==
    LET z1 == ZipFile(z,  ContentTypesPath, ContentTypesXml(structure.slides))
        z2 == ZipFile(z1, RootRelsPath, RootRelsXml)
        z3 == ZipFile(z2, PresentationPath, PresentationXml(structure.slides))
        z4 == ZipFile(z3, PresentationRelsPath, PresentationRelsXml(structure.slides))
    IN  z4

\* Faulty variant of SlideTitle: the default is numbered by the slideNumber field
SlideTitleFromField(slide, slideNumber) ==
    IF Truthy(slide.title) THEN slide.title.value
    ELSE <<"Slide", " ">> \o Dec(slide.slideNumber)

\* slide.title || `Slide ${slideNumber}`
SlideTitle(slide, slideNumber) ==
    IF Truthy(slide.title) THEN slide.title.value
    ELSE <<"Slide", " ">> \o Dec(slideNumber)

\* Faulty variant of SlideContent: the array is joined with the default separator
SlideContentCommaJoin(slide) ==
    IF slide.content.type = "array"
    THEN join(slide.content.value, <<",">>)
    ELSE IF Truthy(slide.content) THEN slide.content.value ELSE <<>>

\* Array.isArray(slide.content) ? slide.content.join('\n• ') : (slide.content || '')
SlideContent(slide) ==
    IF slide.content.type = "array"
    THEN join(slide.content.value, <<Newline, Bullet, " ">>)
    ELSE IF Truthy(slide.content) THEN slide.content.value ELSE <<>>

\* generateSlideXml: the title shape, and the body shape when content is non-empty
generateSlideXml(slide, slideNumber) ==
    LET title == SlideTitle(slide, slideNumber)
        content == SlideContent(slide)
    IN  [title |-> [ph |-> "title", t |-> escapeXml(title)],
         body  |-> IF content # <<>>
                   THEN <<[ph |-> "body", t |-> <<Bullet, " ">> \o escapeXml(content)]>>
                   ELSE <<>>]

\* Faulty variant of addSlide: the entry is named after the slideNumber field
addSlideAtSlideNumber(z, structure, ix) ==
    ZipFile(z, SlidePath(structure.slides[ix + 1].slideNumber),
            generateSlideXml(structure.slides[ix + 1], ix + 1))

\* The body of the loop of addSlides for index ix (0-based)
addSlide(z, structure, ix) ==
    ZipFile(z, SlidePath(ix + 1), generateSlideXml(structure.slides[ix + 1], ix + 1))

\* The loop of addSlides from index ix (0-based) on
RECURSIVE addSlidesFrom(_, _, _, _)
addSlidesFrom(z, structure, templateAnalysis, ix) ==
    IF ix < Len(structure.slides)
    THEN addSlidesFrom(addSlide(z, structure, ix), structure, templateAnalysis, ix + 1)
    ELSE z

\* Faulty variant of addSlides: the images of the template are carried over
addSlidesWithTemplateImages(z, structure, templateAnalysis) ==
    LET z1 == addSlidesFrom(z, structure, templateAnalysis, 0)
        paths == {templateAnalysis.images[k].path : k \in 1..Len(templateAnalysis.images)}
    IN  [p \in (DOMAIN z1) \cup paths |-> IF p \in DOMAIN z1 THEN z1[p] ELSE <<"image">>]

\* addSlides: templateAnalysis is accepted and never read
addSlides(z, structure, templateAnalysis) ==
    addSlidesFrom(z, structure, templateAnalysis, 0)

\* Faulty variant of BuildError: the cause is dropped
BuildErrorNoCause(message) ==
    [kind |-> "threw",
     message |-> <<"Failed to build presentation: ">>,
     package |-> EmptyZip]

\* The error buildPresentation throws from its catch block
BuildError(message) ==
    [kind |-> "threw",
     message |-> <<"Failed to build presentation: ">> \o message,
     package |-> EmptyZip]

\* What generateAsync can throw (an external library's failures)
SerializeErrors == {<<"serialize failed">>}

\* How zip.generateAsync settles
SerializeOutcomes ==
    {[ok |-> TRUE, message |-> <<>>]} \cup {[ok |-> FALSE, message |-> e] : e \in SerializeErrors}

\* The TypeError of slideStructure.slides.map(...) for a value without slides
NoSlidesError == <<"Cannot read properties of undefined (reading 'map')">>

\* buildPresentation as a whole: tBuffer is accepted and never read
buildPresentation(structure, tBuffer, tAnalysis, serialize) ==
    IF "slides" \notin DOMAIN structure THEN BuildError(NoSlidesError)
    ELSE LET z == addSlides(addBasicStructure(EmptyZip, structure), structure, tAnalysis)
         IN  IF serialize.ok
             THEN [kind |-> "returned", message |-> <<>>, package |-> z]
             ELSE BuildError(serialize.message)

\* Inputs of buildPresentation.  slide.type and slide.notes are never read by
\* the builder and are left out.
Titles == {JSUndefined, JSString(<<>>), JSString(<<"Q", Amp, "A">>)}
Contents == {JSUndefined, JSArray(<<>>), JSArray(<< <<>> >>),
             JSArray(<< <<"A">>, <<"B", Lt, "C">> >>), JSString(<<"x", Gt, "y">>)}
\* the slideNumber fields of a deck: its positions, all 1, or the positions reversed
Numberings == {"position", "ones", "reversed"}

SlideNumberOf(numbering, k, n) ==
    CASE numbering = "position" -> k
      [] numbering = "ones" -> 1
      [] numbering = "reversed" -> n + 1 - k

Slides(n) ==
    {[k \in 1..n |-> [slideNumber |-> SlideNumberOf(nb, k, n),
                      title |-> ts[k], content |-> cs[k]]] :
        nb \in Numberings, ts \in [1..n -> Titles], cs \in [1..n -> Contents]}

\* The slide structures of at most max slides
SlideStructures(max) ==
    UNION {{[totalSlides |-> n + d, slides |-> s] : s \in Slides(n), d \in {0, 1}} :
           n \in 0..max}

NoResult == [kind |-> "none", message |-> <<>>, package |-> EmptyZip]

InitBuilder ==
    /\ slideStructure \in SlideStructures(MaxSlides)
    /\ zip = EmptyZip
    /\ i = 0
    /\ bpc = "start"
    /\ buildResult = NoResult

IdleBuilder ==
    /\ slideStructure = [totalSlides |-> 0, slides |-> <<>>]
    /\ zip = EmptyZip
    /\ i = 0
    /\ bpc = "idle"
    /\ buildResult = NoResult

\* const zip = new JSZip(); await this.addBasicStructure(zip, slideStructure)
AddBasicStructure ==
    /\ bpc = "start"
    /\ zip' = addBasicStructure(zip, slideStructure)
    /\ i' = 0
    /\ bpc' = "addSlides"
    /\ UNCHANGED <<slideStructure, buildResult>>
    /\ UNCHANGED <<analyzerVars, escapeVars, layoutVars, serverVars, wizardVars>>

\* one iteration of the loop of addSlides
AddSlide ==
    /\ bpc = "addSlides"
    /\ i < Len(slideStructure.slides)
    /\ zip' = addSlide(zip, slideStructure, i)
    /\ i' = i + 1
    /\ UNCHANGED <<slideStructure, bpc, buildResult>>
    /\ UNCHANGED <<analyzerVars, escapeVars, layoutVars, serverVars, wizardVars>>

\* the loop of addSlides ends
AddSlidesDone ==
    /\ bpc = "addSlides"
    /\ ~(i < Len(slideStructure.slides))
    /\ bpc' = "generate"
    /\ UNCHANGED <<slideStructure, zip, i, buildResult>>
    /\ UNCHANGED <<analyzerVars, escapeVars, layoutVars, serverVars, wizardVars>>

\* zip.generateAsync resolves: the bytes hold the entries of zip
GenerateReturns ==
    /\ bpc = "generate"
    /\ buildResult' = [kind |-> "returned", message |-> <<>>, package |-> zip]
    /\ bpc' = "done"
    /\ UNCHANGED <<slideStructure, zip, i>>
    /\ UNCHANGED <<analyzerVars, escapeVars, layoutVars, serverVars, wizardVars>>

\* zip.generateAsync rejects: the catch block wraps the message and rethrows
GenerateThrows ==
    /\ bpc = "generate"
    /\ \E e \in SerializeErrors : buildResult' = BuildError(e)
    /\ bpc' = "done"
    /\ UNCHANGED <<slideStructure, zip, i>>
    /\ UNCHANGED <<analyzerVars, escapeVars, layoutVars, serverVars, wizardVars>>

NextBuilder ==
    \/ AddBasicStructure
    \/ AddSlide
    \/ AddSlidesDone
    \/ GenerateReturns
    \/ GenerateThrows

---------------------------------------------------------------------------
(* TemplateAnalyzer *)

LayoutsDir == <<"ppt", Slash, "slideLayouts", Slash>>
MediaDir == <<"ppt", Slash, "media", Slash>>
ThemePath == <<"ppt", Slash, "theme", Slash, "theme1", ".xml">>

\* The markers determineLayoutType looks for; no token of a layout text
\* straddles a marker, so a marker occurs in the text exactly when its tokens do
CtrTitle == <<"ctr", "Title">>
Body == <<"bo", "dy">>
TwoColTx == <<"twoCol", "Tx">>

\* Faulty variant of determineLayoutType: the body check precedes the title check
determineLayoutTypeBodyFirst(layoutXml) ==
    IF includes(layoutXml, Body) THEN "content"
    ELSE IF includes(layoutXml, CtrTitle) THEN "title"
    ELSE IF includes(layoutXml, TwoColTx) THEN "two-column"
    ELSE "basic"

determineLayoutType(layoutXml) ==
    IF includes(layoutXml, CtrTitle) THEN "title"
    ELSE IF includes(layoutXml, Body) THEN "content"
    ELSE IF includes(layoutXml, TwoColTx) THEN "two-column"
    ELSE "basic"

getDefaultTheme ==
    [colorScheme |-> [primary |-> "#1f497d", secondary |-> "#4f81bd",
                      accent |-> "#9cbb58", background |-> "#ffffff"],
     fontScheme |-> [majorFont |-> "Calibri", minorFont |-> "Calibri"]]

\* Faulty variant of parseTheme: the fonts are taken from the theme text
parseThemeFromXml(themeXml) ==
    [colorScheme |-> [primary |-> "#1f497d", secondary |-> "#4f81bd",
                      accent |-> "#9cbb58", background |-> "#ffffff"],
     fontScheme |-> [majorFont |-> themeXml, minorFont |-> themeXml]]

\* parseTheme ignores its argument
parseTheme(themeXml) ==
    [colorScheme |-> [primary |-> "#1f497d", secondary |-> "#4f81bd",
                      accent |-> "#9cbb58", background |-> "#ffffff"],
     fontScheme |-> [majorFont |-> "Calibri", minorFont |-> "Calibri"]]

getDefaultLayouts ==
    <<[name |-> <<"title">>, type |-> "title"],
      [name |-> <<"content">>, type |-> "content"],
      [name |-> <<"two-column">>, type |-> "two-column"]>>

\* Array.prototype.slice(0, n)
slice(arr, n) == SubSeq(arr, 1, IF Len(arr) < n THEN Len(arr) ELSE n)

\* name.split('/').pop(): what follows the last '/'
LastSlash(name) ==
    IF \E k \in 1..Len(name) : name[k] = Slash
    THEN CHOOSE k \in 1..Len(name) :
             name[k] = Slash /\ \A j \in (k + 1)..Len(name) : name[j] # Slash
    ELSE 0

Basename(name) == SubSeq(name, LastSlash(name) + 1, Len(name))

\* String.prototype.replace(token, rep) with a string pattern: the first occurrence only
RECURSIVE ReplaceFirst(_, _, _)
ReplaceFirst(s, tok, rep) ==
    IF s = <<>> THEN <<>>
    ELSE IF Head(s) = tok THEN rep \o Tail(s)
    ELSE <<Head(s)>> \o ReplaceFirst(Tail(s), tok, rep)

\* Object.keys(zip.files): the names of the archive in listing order
Keys(zipContent) == [k \in 1..Len(zipContent.files) |-> zipContent.files[k].name]

\* zip.file(name): the entry of that name, files being keyed by name
FileOf(zipContent, name) ==
    zipContent.files[CHOOSE k \in 1..Len(zipContent.files) : zipContent.files[k].name = name]

HasFile(zipContent, name) ==
    \E k \in 1..Len(zipContent.files) : zipContent.files[k].name = name

IsLayoutFile(name) == startsWith(name, LayoutsDir) /\ endsWith(name, <<".xml">>)

\* Object.keys(zip.files).filter(name => name.startsWith(...) && name.endsWith('.xml'))
RECURSIVE FilterLayoutFiles(_)
FilterLayoutFiles(names) ==
    IF names = <<>> THEN <<>>
    ELSE (IF IsLayoutFile(Head(names)) THEN <<Head(names)>> ELSE <<>>)
         \o FilterLayoutFiles(Tail(names))

MaxLayouts == 5

\* The loop of extractLayouts over layoutFiles.slice(0, 5): a read that throws
\* leaves the loop with the layouts pushed so far
RECURSIVE ReadLayouts(_, _, _)
ReadLayouts(zipContent, layoutFiles, layouts) ==
    IF layoutFiles = <<>> THEN [layouts |-> layouts, threw |-> FALSE]
    ELSE LET file == FileOf(zipContent, Head(layoutFiles))
         IN  IF ~file.readable THEN [layouts |-> layouts, threw |-> TRUE]
             ELSE ReadLayouts(zipContent, Tail(layoutFiles),
                              Append(layouts,
                                     [name |-> ReplaceFirst(Basename(Head(layoutFiles)), ".xml", <<>>),
                                      type |-> determineLayoutType(file.content)]))

\* Faulty variant of extractLayouts: the listing is not truncated
extractLayoutsNoLimit(zipContent) ==
    LET layoutFiles == FilterLayoutFiles(Keys(zipContent))
        try == ReadLayouts(zipContent, layoutFiles, <<>>)
    IN  IF Len(try.layouts) > 0 THEN try.layouts ELSE getDefaultLayouts

\* Faulty variant of extractLayouts: no default substitution
extractLayoutsNoDefault(zipContent) ==
    LET layoutFiles == FilterLayoutFiles(Keys(zipContent))
        try == ReadLayouts(zipContent, slice(layoutFiles, MaxLayouts), <<>>)
    IN  try.layouts

\* extractLayouts: the catch block only logs
extractLayouts(zipContent) ==
    LET layoutFiles == FilterLayoutFiles(Keys(zipContent))
        try == ReadLayouts(zipContent, slice(layoutFiles, MaxLayouts), <<>>)
    IN  IF Len(try.layouts) > 0 THEN try.layouts ELSE getDefaultLayouts

\* extractTheme: the theme entry is looked up and read; the catch block only logs
extractTheme(zipContent) ==
    IF HasFile(zipContent, ThemePath) /\ FileOf(zipContent, ThemePath).readable
    THEN parseTheme(FileOf(zipContent, ThemePath).content)
    ELSE getDefaultTheme

\* String.prototype.toLowerCase, on the tokens of entry names
LowerToken(t) ==
    CASE t = ".PNG" -> ".png"
      [] t = ".JPG" -> ".jpg"
      [] OTHER -> t

toLowerCase(s) == [k \in 1..Len(s) |-> LowerToken(s[k])]

\* /\.(png|jpg|jpeg|gif)$/i
ImageExtensions == {".png", ".jpg", ".jpeg", ".gif"}

IsImageFile(name) ==
    /\ startsWith(name, MediaDir)
    /\ name # <<>>
    /\ LowerToken(name[Len(name)]) \in ImageExtensions

\* Object.keys(zip.files).filter(name => name.startsWith(...) && regex.test(name))
RECURSIVE FilterImageFiles(_)
FilterImageFiles(names) ==
    IF names = <<>> THEN <<>>
    ELSE (IF IsImageFile(Head(names)) THEN <<Head(names)>> ELSE <<>>)
         \o FilterImageFiles(Tail(names))

\* The tokens of entry names that start with a dot
DotTokens == {".xml", ".rels", ".png", ".PNG", ".jpg", ".JPG", ".jpeg", ".gif", ".wav"}

\* path.extname: from the last dot of the basename, '' when there is none or
\* when it is the first character of the basename
extname(file) ==
    LET base == Basename(file)
        dots == {k \in 1..Len(base) : base[k] \in DotTokens}
    IN  IF dots = {} THEN <<>>
        ELSE LET last == CHOOSE k \in dots : \A j \in dots : j <= k
             IN  IF last = 1 THEN <<>> ELSE SubSeq(base, last, Len(base))

ImageOf(file) ==
    [name |-> Basename(file), path |-> file, type |-> toLowerCase(extname(file))]

\* extractImages
extractImages(zipContent) ==
    LET mediaFiles == FilterImageFiles(Keys(zipContent))
    IN  [k \in 1..Len(mediaFiles) |-> ImageOf(mediaFiles[k])]

\* What analyzeTemplate returns from its try block
Analysis(layouts, th, imgs, timestamp) ==
    [kind |-> "returned",
     value |-> [slideLayouts |-> layouts, theme |-> th, images |-> imgs,
                metadata |-> [analyzed |-> TRUE, timestamp |-> timestamp]]]

\* Faulty variant of analyzeTemplateCatch: the error is thrown on
analyzeTemplateRethrow(error) == [kind |-> "threw", value |-> error]

\* Faulty variant of analyzeTemplateCatch: the default layouts are substituted
analyzeTemplateCatchDefaultLayouts(error) ==
    [kind |-> "returned",
     value |-> [slideLayouts |-> getDefaultLayouts, theme |-> getDefaultTheme, images |-> <<>>,
                metadata |-> [analyzed |-> FALSE, error |-> error.message]]]

\* What analyzeTemplate returns from its catch block
analyzeTemplateCatch(error) ==
    [kind |-> "returned",
     value |-> [slideLayouts |-> <<>>, theme |-> getDefaultTheme, images |-> <<>>,
                metadata |-> [analyzed |-> FALSE, error |-> error.message]]]

\* analyzeTemplate as a whole
analyzeTemplate(buffer, timestamp) ==
    IF ~buffer.opens THEN analyzeTemplateCatch(buffer.error)
    ELSE Analysis(extractLayouts(buffer), extractTheme(buffer), extractImages(buffer), timestamp)

\* new Date().toISOString()
Timestamps == {"2025-01-01T00:00:00.000Z", "2025-01-01T00:00:01.000Z"}

FirstTimestamp == CHOOSE t \in Timestamps : TRUE

\* The errors loadAsync rejects with on bytes that are no zip archive
LoadErrors ==
    {[message |-> "Can't find end of central directory : is this a zip file ?"],
     [message |-> "End of data reached (data length = 0, asked index = 4). Corrupted zip ?"]}

\* Entries of template archives; k is the position in the listing and keeps
\* the names of an archive distinct
EntryKinds ==
    {"layoutTitle", "layoutNested", "layoutBroken", "layoutRels", "theme", "themeBroken",
     "image", "imageHidden", "audio", "thumbnail", "appProperties"}

LayoutDirKinds == {"layoutTitle", "layoutNested", "layoutBroken", "layoutRels"}

EntryOf(kind, k) ==
    CASE kind = "layoutTitle" ->
           [name |-> LayoutsDir \o <<"slideLayout">> \o Dec(k) \o <<".xml">>,
            readable |-> TRUE, content |-> <<"ctr", "Title", "bo", "dy">>]
      [] kind = "layoutNested" ->
           [name |-> LayoutsDir \o Dec(k) \o <<Slash, "layout", ".xml">>,
            readable |-> TRUE, content |-> <<"twoCol", "Tx">>]
      [] kind = "layoutBroken" ->
           [name |-> LayoutsDir \o <<"slideLayout">> \o Dec(k) \o <<".xml">>,
            readable |-> FALSE, content |-> <<>>]
      [] kind = "layoutRels" ->
           [name |-> LayoutsDir \o <<"_rels", Slash, "slideLayout">> \o Dec(k) \o <<".xml", ".rels">>,
            readable |-> TRUE, content |-> <<"x">>]
      [] kind = "theme" ->
           [name |-> ThemePath, readable |-> TRUE, content |-> <<"x">>]
      [] kind = "themeBroken" ->
           [name |-> ThemePath, readable |-> FALSE, content |-> <<>>]
      [] kind = "image" ->
           [name |-> MediaDir \o <<"image">> \o Dec(k) \o <<".PNG">>,
            readable |-> TRUE, content |-> <<"x">>]
      [] kind = "imageHidden" ->
           [name |-> MediaDir \o Dec(k) \o <<Slash, ".png">>,
            readable |-> TRUE, content |-> <<"x">>]
      [] kind = "audio" ->
           [name |-> MediaDir \o <<"audio">> \o Dec(k) \o <<".wav">>,
            readable |-> TRUE, content |-> <<"x">>]
      [] kind = "thumbnail" ->
           [name |-> <<"docProps", Slash, "thumbnail">> \o Dec(k) \o <<".jpeg">>,
            readable |-> TRUE, content |-> <<"x">>]
      [] kind = "appProperties" ->
           [name |-> <<"docProps", Slash, "app", ".xml">>,
            readable |-> TRUE, content |-> <<"Properties">>]

\* The listings of at most n entries of these kinds
Listings(kinds, n) ==
    UNION {{[k \in 1..m |-> EntryOf(ks[k], k)] : ks \in [1..m -> kinds]} : m \in 0..n}

NoError == [message |-> ""]

DistinctNames(files) ==
    \A a, b \in 1..Len(files) : a # b => files[a].name # files[b].name

\* What loadAsync makes of the uploaded bytes: a rejection, or an archive
\* whose entries have distinct names
TemplateBuffers(maxEntries, maxLayoutFiles) ==
    {[opens |-> FALSE, error |-> e, files |-> <<>>] : e \in LoadErrors}
    \cup {[opens |-> TRUE, error |-> NoError, files |-> f] :
             f \in {g \in Listings(EntryKinds, maxEntries)
                             \cup Listings(LayoutDirKinds, maxLayoutFiles) : DistinctNames(g)}}

NoAnalysis == [kind |-> "none", value |-> <<>>]

InitAnalyzer ==
    /\ templateBuffer \in TemplateBuffers(MaxEntries, MaxLayoutFiles)
    /\ apc = "start"
    /\ slideLayouts = <<>>
    /\ theme = <<>>
    /\ images = <<>>
    /\ analysisResult = NoAnalysis

\* await zip.loadAsync(templateBuffer) rejects: the catch block returns
LoadAsyncRejects ==
    /\ apc = "start"
    /\ ~templateBuffer.opens
    /\ analysisResult' = analyzeTemplateCatch(templateBuffer.error)
    /\ apc' = "done"
    /\ UNCHANGED <<templateBuffer, slideLayouts, theme, images>>
    /\ UNCHANGED <<builderVars, escapeVars, layoutVars, serverVars, wizardVars>>

\* await zip.loadAsync(templateBuffer) resolves
LoadAsyncResolves ==
    /\ apc = "start"
    /\ templateBuffer.opens
    /\ apc' = "extractLayouts"
    /\ UNCHANGED <<templateBuffer, slideLayouts, theme, images, analysisResult>>
    /\ UNCHANGED <<builderVars, escapeVars, layoutVars, serverVars, wizardVars>>

\* slideLayouts: await this.extractLayouts(zipContent)
ExtractLayouts ==
    /\ apc = "extractLayouts"
    /\ slideLayouts' = extractLayouts(templateBuffer)
    /\ apc' = "extractTheme"
    /\ UNCHANGED <<templateBuffer, theme, images, analysisResult>>
    /\ UNCHANGED <<builderVars, escapeVars, layoutVars, serverVars, wizardVars>>

\* theme: await this.extractTheme(zipContent)
ExtractTheme ==
    /\ apc = "extractTheme"
    /\ theme' = extractTheme(templateBuffer)
    /\ apc' = "extractImages"
    /\ UNCHANGED <<templateBuffer, slideLayouts, images, analysisResult>>
    /\ UNCHANGED <<builderVars, escapeVars, layoutVars, serverVars, wizardVars>>

\* images: await this.extractImages(zipContent)
ExtractImages ==
    /\ apc = "extractImages"
    /\ images' = extractImages(templateBuffer)
    /\ apc' = "metadata"
    /\ UNCHANGED <<templateBuffer, slideLayouts, theme, analysisResult>>
    /\ UNCHANGED <<builderVars, escapeVars, layoutVars, serverVars, wizardVars>>

\* metadata: { analyzed: true, timestamp: ... }; return analysis
ReturnAnalysis ==
    /\ apc = "metadata"
    /\ \E t \in Timestamps : analysisResult' = Analysis(slideLayouts, theme, images, t)
    /\ apc' = "done"
    /\ UNCHANGED <<templateBuffer, slideLayouts, theme, images>>
    /\ UNCHANGED <<builderVars, escapeVars, layoutVars, serverVars, wizardVars>>

NextAnalyzer ==
    \/ LoadAsyncRejects
    \/ LoadAsyncResolves
    \/ ExtractLayouts
    \/ ExtractTheme
    \/ ExtractImages
    \/ ReturnAnalysis

---------------------------------------------------------------------------
(* buildPresentation with its template arguments *)

\* Uploaded templates: bytes that are no archive, a template with theme, image
\* and layout, and a presentation that has a slide and a presentation part of
\* its own
BuildTemplates ==
    {[opens |-> FALSE, error |-> CHOOSE e \in LoadErrors : TRUE, files |-> <<>>],
     [opens |-> TRUE, error |-> NoError,
      files |-> <<EntryOf("theme", 1), EntryOf("image", 2), EntryOf("layoutTitle", 3)>>],
     [opens |-> TRUE, error |-> NoError,
      files |-> <<[name |-> SlidePath(1), readable |-> TRUE, content |-> <<"x">>],
                  [name |-> PresentationPath, readable |-> TRUE, content |-> <<"x">>],
                  EntryOf("imageHidden", 3)>>]}

\* Any slide structure within the bounds, any template, and the analysis of
\* bytes that are no archive or of a template with images
InitBuild ==
    /\ slideStructure \in SlideStructures(MaxSlides)
    /\ zip = EmptyZip
    /\ i = 0
    /\ bpc = "call"
    /\ buildResult = NoResult
    /\ templateBuffer \in BuildTemplates
    /\ apc = "idle"
    /\ slideLayouts = <<>>
    /\ theme = <<>>
    /\ images = <<>>
    /\ analysisResult \in {analyzeTemplate(b, FirstTimestamp) :
                               b \in {t \in BuildTemplates : ~t.opens \/ HasFile(t, ThemePath)}}

\* await builder.buildPresentation(slideStructure, req.file.buffer, templateAnalysis)
BuildPresentation ==
    /\ bpc = "call"
    /\ \E o \in SerializeOutcomes :
           buildResult' = buildPresentation(slideStructure, templateBuffer, analysisResult.value, o)
    /\ bpc' = "done"
    /\ UNCHANGED <<slideStructure, zip, i>>
    /\ UNCHANGED <<analyzerVars, escapeVars, layoutVars, serverVars, wizardVars>>

---------------------------------------------------------------------------
(* The Express application: the rate limiter, the upload middleware, the   *)
(* handlers of POST /api/analyze-template and POST /api/generate-          *)
(* presentation, and the error middleware.  A request is                   *)
(* [endpoint, body, files, world]: world holds what the outside answers to *)
(* the calls made for this request (the replies of the LLM API, how        *)
(* generateAsync settles, the clock).  guidance and llmModel only reach    *)
(* the prompt and the API call and are left out.  All requests come from   *)
(* one client.                                                             *)

NodeEnvs == {"production", "development", "undefined"}

\* max of the rate limiter
RateLimitMax(env) == IF env = "production" THEN 10 ELSE 100

\* The answer of the rate limiter to a request over the limit
TooManyRequests ==
    [status |-> 429, type |-> "text",
     body |-> [message |-> <<"Too many requests, please try again later.">>]]

PptxMimeType == "application/vnd.openxmlformats-officedocument.presentationml.presentation"
PotxMimeType == "application/vnd.openxmlformats-officedocument.presentationml.template"

AllowedMimeTypes == {PptxMimeType, PotxMimeType}

MaxFileSize == 50 * 1024 * 1024

MaxFiles == 1

\* req.file when no file was uploaded
NoFile == [present |-> FALSE]

NoUploadError == [name |-> "none", code |-> "", message |-> <<>>]

\* The error fileFilter passes to its callback
InvalidFileType ==
    [name |-> "Error", code |-> "",
     message |-> <<"Invalid file type. Only .pptx and .potx files are allowed.">>]

MulterError(code, message) == [name |-> "MulterError", code |-> code, message |-> message]

\* upload.single('template') on the file parts of a request, all of them in
\* the field 'template': the first part goes through fileFilter and the size
\* limit, a further part exceeds the limit on the number of files
uploadSingle(files) ==
    IF files = <<>> THEN [error |-> NoUploadError, file |-> NoFile]
    ELSE IF files[1].mimetype \notin AllowedMimeTypes
    THEN [error |-> InvalidFileType, file |-> NoFile]
    ELSE IF files[1].size > MaxFileSize
    THEN [error |-> MulterError("LIMIT_FILE_SIZE", <<"File too large">>), file |-> NoFile]
    ELSE IF Len(files) > MaxFiles
    THEN [error |-> MulterError("LIMIT_FILE_COUNT", <<"Too many files">>), file |-> NoFile]
    ELSE [error |-> NoUploadError, file |-> files[1]]

\* The error handling middleware
errorMiddleware(env, error) ==
    IF error.name = "MulterError" /\ error.code = "LIMIT_FILE_SIZE"
    THEN [status |-> 400, type |-> "json",
          body |-> [error |-> "File size too large. Maximum 50MB allowed."]]
    ELSE IF error.name = "MulterError" /\ error.code = "LIMIT_FILE_COUNT"
    THEN [status |-> 400, type |-> "json",
          body |-> [error |-> "Too many files. Only one file allowed."]]
    ELSE [status |-> 500, type |-> "json",
          body |-> IF env = "development"
                   THEN [error |-> "Internal server error", details |-> error.message]
                   ELSE [error |-> "Internal server error"]]

\* The answers of the handler of analyze-template
NoTemplateFile ==
    [status |-> 400, type |-> "json", body |-> [error |-> "No template file provided"]]

AnalysisResponse(analysis, file) ==
    [status |-> 200, type |-> "json",
     body |-> [success |-> TRUE, analysis |-> analysis,
               filename |-> file.originalname, size |-> file.size]]

analyzeCatch(env, error) ==
    [status |-> 500, type |-> "json",
     body |-> IF env = "development"
              THEN [error |-> "Failed to analyze template", details |-> error.message]
              ELSE [error |-> "Failed to analyze template"]]

\* The answers of the handler of generate-presentation
MissingFields ==
    [status |-> 400, type |-> "json",
     body |-> [error |-> "Missing required fields",
               required |-> <<"text", "llmProvider", "apiKey", "template file">>]]

PresentationResponse(presentationBuffer) ==
    [status |-> 200, type |-> PptxMimeType,
     disposition |-> "attachment; filename=\"generated-presentation.pptx\"",
     body |-> [package |-> presentationBuffer]]

generateCatch(env, error) ==
    [status |-> 500, type |-> "json",
     body |-> [error |-> "Failed to generate presentation",
               details |-> IF env = "development" THEN error.message
                           ELSE <<"Internal server error">>]]

\* Faulty variant of MissingRequiredFields: the API key is not required
MissingRequiredFieldsButKey(body, file) ==
    \/ ~Truthy(body.text)
    \/ ~Truthy(body.llmProvider)
    \/ ~file.present

\* !text || !llmProvider || !apiKey || !req.file
MissingRequiredFields(body, file) ==
    \/ ~Truthy(body.text)
    \/ ~Truthy(body.llmProvider)
    \/ ~Truthy(body.apiKey)
    \/ ~file.present

\* Faulty variant of createProvider: an unknown name gives the OpenAI provider
createProviderWithDefault(providerConfig) ==
    CASE providerConfig.provider = <<"anthropic">> ->
           [kind |-> "returned", value |-> [name |-> "Anthropic", apiKey |-> providerConfig.apiKey]]
      [] providerConfig.provider = <<"gemini">> ->
           [kind |-> "returned", value |-> [name |-> "Gemini", apiKey |-> providerConfig.apiKey]]
      [] OTHER ->
           [kind |-> "returned", value |-> [name |-> "OpenAI", apiKey |-> providerConfig.apiKey]]

\* LLMProviderFactory.createProvider
createProvider(providerConfig) ==
    CASE providerConfig.provider = <<"openai">> ->
           [kind |-> "returned", value |-> [name |-> "OpenAI", apiKey |-> providerConfig.apiKey]]
      [] providerConfig.provider = <<"anthropic">> ->
           [kind |-> "returned", value |-> [name |-> "Anthropic", apiKey |-> providerConfig.apiKey]]
      [] providerConfig.provider = <<"gemini">> ->
           [kind |-> "returned", value |-> [name |-> "Gemini", apiKey |-> providerConfig.apiKey]]
      [] OTHER ->
           [kind |-> "threw",
            error |-> [message |-> <<"Unsupported LLM provider: ">> \o providerConfig.provider]]

\* Faulty variant of analyzeText: a failed call is answered with an empty outline
analyzeTextWithFallback(provider, reply) ==
    IF reply.kind = "json" THEN [kind |-> "returned", value |-> reply.value]
    ELSE [kind |-> "returned", value |-> [title |-> <<>>, slideCount |-> 0]]

\* provider.analyzeText: one call of the API and JSON.parse of its reply; a
\* rejected call and a reply that does not parse are thrown on as one Error
analyzeText(provider, reply) ==
    IF reply.kind = "json" THEN [kind |-> "returned", value |-> reply.value]
    ELSE [kind |-> "threw",
          error |-> [message |-> <<"Failed to analyze text with ", provider.name>>]]

\* provider.generateSlideStructure, likewise
generateSlideStructure(provider, reply) ==
    IF reply.kind = "json" THEN [kind |-> "returned", value |-> reply.value]
    ELSE [kind |-> "threw",
          error |-> [message |->
                        IF provider.name = "OpenAI" THEN <<"Failed to generate slide structure">>
                        ELSE <<"Failed to generate slides with ", provider.name>>]]

\* Faulty variant of NewJSZip: one JSZip object at module level
NewJSZipShared(r) == 1

\* new JSZip() in analyzeTemplate and in buildPresentation: an object of its
\* own for every call, named here by the request that makes the call
NewJSZip(r) == r

\* What the LLM API answers to a call: the call is rejected, the reply is no
\* JSON, or the reply parses to a value
FailedReplies == {[kind |-> "transportError"], [kind |-> "notJson"]}

JsonReply(v) == [kind |-> "json", value |-> v]

\* The outline analyzeText asks for; the handler only passes it on
TextAnalysis == [title |-> <<"Title">>, slideCount |-> 2]

\* Values the reply to generateSlideStructure parses to: two slide structures
\* and a value without slides
OneSlide ==
    [totalSlides |-> 1,
     slides |-> <<[slideNumber |-> 1, title |-> JSString(<<"Q", Amp, "A">>),
                   content |-> JSArray(<< <<"A">>, <<"B", Lt, "C">> >>)]>>]

TwoSlides ==
    [totalSlides |-> 2,
     slides |-> <<[slideNumber |-> 1, title |-> JSUndefined, content |-> JSString(<<"x", Gt, "y">>)],
                  [slideNumber |-> 2, title |-> JSString(<<"End">>), content |-> JSUndefined]>>]

WithoutSlides == [totalSlides |-> 3]

\* The world in which every call made for a request succeeds
QuietWorld(structure, timestamp) ==
    [analyzeText |-> JsonReply(TextAnalysis),
     generateSlideStructure |-> JsonReply(structure),
     serialize |-> [ok |-> TRUE, message |-> <<>>],
     timestamp |-> timestamp]

\* The worlds of a generate-presentation request: at most one call fails
GenerateWorlds ==
    {[QuietWorld(OneSlide, FirstTimestamp) EXCEPT !.analyzeText = f] : f \in FailedReplies}
    \cup {[QuietWorld(OneSlide, FirstTimestamp) EXCEPT !.generateSlideStructure = f] :
             f \in FailedReplies}
    \cup {QuietWorld(s, FirstTimestamp) : s \in {OneSlide, TwoSlides, WithoutSlides}}
    \cup {[QuietWorld(OneSlide, FirstTimestamp) EXCEPT !.serialize = o] : o \in SerializeOutcomes}

\* A file part of a multipart request
FilePart(buffer, mimetype, size) ==
    [present |-> TRUE, originalname |-> "template.pptx", mimetype |-> mimetype,
     size |-> size, buffer |-> buffer]

AcceptedFile(buffer) == FilePart(buffer, PptxMimeType, 1024)

\* The file parts the upload middleware rejects
RejectedUploads ==
    LET b == CHOOSE t \in BuildTemplates : t.opens
    IN  {<<FilePart(b, "image/png", 1024)>>,
         <<FilePart(b, PptxMimeType, MaxFileSize + 1)>>,
         <<AcceptedFile(b), AcceptedFile(b)>>}

FormBody(t, p, k) == [text |-> t, llmProvider |-> p, apiKey |-> k]

ValidBody(p) == FormBody(JSString(<<"some text">>), JSString(<<p>>), JSString(<<"key">>))

\* Bodies that lack a required field
InvalidBodies ==
    {FormBody(JSUndefined, JSString(<<"openai">>), JSString(<<"key">>)),
     FormBody(JSString(<<>>), JSString(<<"openai">>), JSString(<<"key">>)),
     FormBody(JSString(<<"some text">>), JSUndefined, JSString(<<"key">>)),
     FormBody(JSString(<<"some text">>), JSString(<<"openai">>), JSUndefined),
     FormBody(JSUndefined, JSUndefined, JSUndefined)}

GenerateRequest(body, files, world) ==
    [endpoint |-> "generate", body |-> body, files |-> files, world |-> world]

AnalyzeRequest(files, timestamp) ==
    [endpoint |-> "analyze", body |-> FormBody(JSUndefined, JSUndefined, JSUndefined),
     files |-> files, world |-> QuietWorld(OneSlide, timestamp)]

\* The requests of the specification of one request
Requests ==
    {GenerateRequest(ValidBody(p), <<AcceptedFile(b)>>, w) :
        p \in {"openai", "anthropic", "gemini"}, b \in BuildTemplates, w \in GenerateWorlds}
    \cup {GenerateRequest(ValidBody(p), <<AcceptedFile(b)>>,
                          QuietWorld(OneSlide, FirstTimestamp)) :
             p \in {"cohere", "OpenAI"}, b \in BuildTemplates}
    \cup {GenerateRequest(body, <<AcceptedFile(b)>>, QuietWorld(OneSlide, FirstTimestamp)) :
             body \in InvalidBodies, b \in {t \in BuildTemplates : t.opens}}
    \cup {GenerateRequest(ValidBody("openai"), f, QuietWorld(OneSlide, FirstTimestamp)) :
             f \in RejectedUploads \cup {<<>>}}
    \cup {AnalyzeRequest(<<AcceptedFile(b)>>, t) : b \in BuildTemplates, t \in Timestamps}
    \cup {AnalyzeRequest(<<FilePart(b, PotxMimeType, MaxFileSize)>>, FirstTimestamp) :
             b \in BuildTemplates}
    \cup {AnalyzeRequest(f, FirstTimestamp) : f \in RejectedUploads \cup {<<>>}}

\* The requests of the specification of concurrent requests
ConcurrentRequests ==
    LET good == CHOOSE t \in BuildTemplates : t.opens /\ HasFile(t, ThemePath)
        bad == CHOOSE t \in BuildTemplates : ~t.opens
    IN  {GenerateRequest(ValidBody("openai"), <<AcceptedFile(good)>>,
                         QuietWorld(OneSlide, FirstTimestamp)),
         GenerateRequest(ValidBody("gemini"), <<AcceptedFile(bad)>>,
                         QuietWorld(TwoSlides, FirstTimestamp)),
         AnalyzeRequest(<<AcceptedFile(good)>>, FirstTimestamp),
         AnalyzeRequest(<<AcceptedFile(bad)>>, FirstTimestamp)}

\* The local variables of a handler before it runs
NoLocals ==
    [file |-> NoFile,
     provider |-> [name |-> "none", apiKey |-> JSUndefined],
     textAnalysis |-> [title |-> <<>>, slideCount |-> 0],
     slideStructure |-> [totalSlides |-> 0],
     templateAnalysis |-> NoAnalysis]

ClosedArchive == [opens |-> FALSE, error |-> NoError, files |-> <<>>]

\* The requests have been sent and none has reached the application
Arrived(slots) ==
    /\ rpc = [r \in slots |-> "arrived"]
    /\ locals = [r \in slots |-> NoLocals]
    /\ archives = [r \in slots |-> ClosedArchive]
    /\ packages = [r \in slots |-> EmptyZip]
    /\ responses = [r \in slots |-> <<>>]
    /\ calls = [r \in slots |-> <<>>]

\* One request of any kind, in any environment, the client having used none,
\* all but one or all of the requests of its window
InitServer ==
    /\ nodeEnv \in NodeEnvs
    /\ hits \in {0, RateLimitMax(nodeEnv) - 1, RateLimitMax(nodeEnv)}
    /\ requests \in [{1} -> Requests]
    /\ Arrived({1})

\* Up to MaxRequests requests in progress at once
InitConcurrent ==
    /\ nodeEnv = "production"
    /\ hits \in {0, RateLimitMax(nodeEnv) - 1}
    /\ requests \in [1..MaxRequests -> ConcurrentRequests]
    /\ Arrived(1..MaxRequests)

IdleServer ==
    /\ nodeEnv = "undefined"
    /\ hits = 0
    /\ requests = <<>>
    /\ Arrived({})

\* app.use(limiter): the request is counted; over the limit it is answered 429
RateLimit(r) ==
    /\ rpc[r] = "arrived"
    /\ hits' = hits + 1
    /\ IF hits + 1 > RateLimitMax(nodeEnv)
       THEN /\ responses' = [responses EXCEPT ![r] = Append(@, TooManyRequests)]
            /\ rpc' = [rpc EXCEPT ![r] = "done"]
       ELSE /\ responses' = responses
            /\ rpc' = [rpc EXCEPT ![r] = "upload"]
    /\ UNCHANGED <<nodeEnv, requests, locals, archives, packages, calls>>
    /\ UNCHANGED <<builderVars, analyzerVars, escapeVars, layoutVars, wizardVars>>

\* upload.single('template'): an error goes to the error handling middleware
Upload(r) ==
    /\ rpc[r] = "upload"
    /\ LET up == uploadSingle(requests[r].files)
       IN  IF up.error.name # "none"
           THEN /\ responses' = [responses EXCEPT ![r] = Append(@, errorMiddleware(nodeEnv, up.error))]
                /\ rpc' = [rpc EXCEPT ![r] = "done"]
                /\ locals' = locals
           ELSE /\ locals' = [locals EXCEPT ![r].file = up.file]
                /\ rpc' = [rpc EXCEPT ![r] = "handler"]
                /\ responses' = responses
    /\ UNCHANGED <<nodeEnv, hits, requests, archives, packages, calls>>
    /\ UNCHANGED <<builderVars, analyzerVars, escapeVars, layoutVars, wizardVars>>

\* The handler of analyze-template up to await analyzer.analyzeTemplate(...)
HandleAnalyze(r) ==
    /\ rpc[r] = "handler"
    /\ requests[r].endpoint = "analyze"
    /\ IF ~locals[r].file.present
       THEN /\ responses' = [responses EXCEPT ![r] = Append(@, NoTemplateFile)]
            /\ rpc' = [rpc EXCEPT ![r] = "done"]
            /\ calls' = calls
       ELSE /\ calls' = [calls EXCEPT ![r] = Append(@, "analyzeTemplate")]
            /\ rpc' = [rpc EXCEPT ![r] = "loadAsync"]
            /\ responses' = responses
    /\ UNCHANGED <<nodeEnv, hits, requests, locals, archives, packages>>
    /\ UNCHANGED <<builderVars, analyzerVars, escapeVars, layoutVars, wizardVars>>

\* Faulty variant of HandleGenerate: analyzeTemplate is started together with
\* analyzeText
HandleGenerateParallel(r) ==
    /\ rpc[r] = "handler"
    /\ requests[r].endpoint = "generate"
    /\ IF MissingRequiredFields(requests[r].body, locals[r].file)
       THEN /\ responses' = [responses EXCEPT ![r] = Append(@, MissingFields)]
            /\ rpc' = [rpc EXCEPT ![r] = "done"]
            /\ UNCHANGED <<locals, calls>>
       ELSE LET provider == createProvider([provider |-> requests[r].body.llmProvider.value,
                                            apiKey |-> requests[r].body.apiKey])
            IN  IF provider.kind = "threw"
                THEN /\ calls' = [calls EXCEPT ![r] = Append(@, "createProvider")]
                     /\ responses' = [responses EXCEPT ![r] =
                                         Append(@, generateCatch(nodeEnv, provider.error))]
                     /\ rpc' = [rpc EXCEPT ![r] = "done"]
                     /\ locals' = locals
                ELSE /\ calls' = [calls EXCEPT ![r] =
                                     @ \o <<"createProvider", "analyzeText", "analyzeTemplate">>]
                     /\ locals' = [locals EXCEPT ![r].provider = provider.value]
                     /\ rpc' = [rpc EXCEPT ![r] = "analyzeText"]
                     /\ responses' = responses
    /\ UNCHANGED <<nodeEnv, hits, requests, archives, packages>>
    /\ UNCHANGED <<builderVars, analyzerVars, escapeVars, layoutVars, wizardVars>>

\* The handler of generate-presentation up to await provider.analyzeText(...)
HandleGenerate(r) ==
    /\ rpc[r] = "handler"
    /\ requests[r].endpoint = "generate"
    /\ IF MissingRequiredFields(requests[r].body, locals[r].file)
       THEN /\ responses' = [responses EXCEPT ![r] = Append(@, MissingFields)]
            /\ rpc' = [rpc EXCEPT ![r] = "done"]
            /\ UNCHANGED <<locals, calls>>
       ELSE LET provider == createProvider([provider |-> requests[r].body.llmProvider.value,
                                            apiKey |-> requests[r].body.apiKey])
            IN  IF provider.kind = "threw"
                THEN /\ calls' = [calls EXCEPT ![r] = Append(@, "createProvider")]
                     /\ responses' = [responses EXCEPT ![r] =
                                         Append(@, generateCatch(nodeEnv, provider.error))]
                     /\ rpc' = [rpc EXCEPT ![r] = "done"]
                     /\ locals' = locals
                ELSE /\ calls' = [calls EXCEPT ![r] = @ \o <<"createProvider", "analyzeText">>]
                     /\ locals' = [locals EXCEPT ![r].provider = provider.value]
                     /\ rpc' = [rpc EXCEPT ![r] = "analyzeText"]
                     /\ responses' = responses
    /\ UNCHANGED <<nodeEnv, hits, requests, archives, packages>>
    /\ UNCHANGED <<builderVars, analyzerVars, escapeVars, layoutVars, wizardVars>>

\* await provider.analyzeText(text, guidance) settles
AnalyzeTextSettles(r) ==
    /\ rpc[r] = "analyzeText"
    /\ LET result == analyzeText(locals[r].provider, requests[r].world.analyzeText)
       IN  IF result.kind = "threw"
           THEN /\ responses' = [responses EXCEPT ![r] =
                                    Append(@, generateCatch(nodeEnv, result.error))]
                /\ rpc' = [rpc EXCEPT ![r] = "done"]
                /\ UNCHANGED <<locals, calls>>
           ELSE /\ locals' = [locals EXCEPT ![r].textAnalysis = result.value]
                /\ calls' = [calls EXCEPT ![r] = Append(@, "generateSlideStructure")]
                /\ rpc' = [rpc EXCEPT ![r] = "generateSlideStructure"]
                /\ responses' = responses
    /\ UNCHANGED <<nodeEnv, hits, requests, archives, packages>>
    /\ UNCHANGED <<builderVars, analyzerVars, escapeVars, layoutVars, wizardVars>>

\* await provider.generateSlideStructure(textAnalysis, guidance) settles
GenerateSlideStructureSettles(r) ==
    /\ rpc[r] = "generateSlideStructure"
    /\ LET result == generateSlideStructure(locals[r].provider,
                                            requests[r].world.generateSlideStructure)
       IN  IF result.kind = "threw"
           THEN /\ responses' = [responses EXCEPT ![r] =
                                    Append(@, generateCatch(nodeEnv, result.error))]
                /\ rpc' = [rpc EXCEPT ![r] = "done"]
                /\ UNCHANGED <<locals, calls>>
           ELSE /\ locals' = [locals EXCEPT ![r].slideStructure = result.value]
                /\ calls' = [calls EXCEPT ![r] = Append(@, "analyzeTemplate")]
                /\ rpc' = [rpc EXCEPT ![r] = "loadAsync"]
                /\ responses' = responses
    /\ UNCHANGED <<nodeEnv, hits, requests, archives, packages>>
    /\ UNCHANGED <<builderVars, analyzerVars, escapeVars, layoutVars, wizardVars>>

\* analyzeTemplate: await zip.loadAsync(templateBuffer) settles; when it
\* rejects the catch block returns
LoadAsyncSettles(r) ==
    /\ rpc[r] = "loadAsync"
    /\ IF ~locals[r].file.buffer.opens
       THEN /\ locals' = [locals EXCEPT ![r].templateAnalysis =
                             analyzeTemplateCatch(locals[r].file.buffer.error)]
            /\ rpc' = [rpc EXCEPT ![r] = "analyzed"]
            /\ archives' = archives
       ELSE /\ archives' = [archives EXCEPT ![NewJSZip(r)] = locals[r].file.buffer]
            /\ rpc' = [rpc EXCEPT ![r] = "extract"]
            /\ locals' = locals
    /\ UNCHANGED <<nodeEnv, hits, requests, packages, responses, calls>>
    /\ UNCHANGED <<builderVars, analyzerVars, escapeVars, layoutVars, wizardVars>>

\* analyzeTemplate: the three extractions, the metadata and the return
ExtractSettles(r) ==
    /\ rpc[r] = "extract"
    /\ LET zipContent == archives[NewJSZip(r)]
       IN  locals' = [locals EXCEPT ![r].templateAnalysis =
                         Analysis(extractLayouts(zipContent), extractTheme(zipContent),
                                  extractImages(zipContent), requests[r].world.timestamp)]
    /\ rpc' = [rpc EXCEPT ![r] = "analyzed"]
    /\ UNCHANGED <<nodeEnv, hits, requests, archives, packages, responses, calls>>
    /\ UNCHANGED <<builderVars, analyzerVars, escapeVars, layoutVars, wizardVars>>

\* The handler of analyze-template after await analyzer.analyzeTemplate(...)
RespondAnalysis(r) ==
    /\ rpc[r] = "analyzed"
    /\ requests[r].endpoint = "analyze"
    /\ responses' = [responses EXCEPT ![r] =
                        Append(@, IF locals[r].templateAnalysis.kind = "threw"
                                  THEN analyzeCatch(nodeEnv, locals[r].templateAnalysis.value)
                                  ELSE AnalysisResponse(locals[r].templateAnalysis.value,
                                                        locals[r].file))]
    /\ rpc' = [rpc EXCEPT ![r] = "done"]
    /\ UNCHANGED <<nodeEnv, hits, requests, locals, archives, packages, calls>>
    /\ UNCHANGED <<builderVars, analyzerVars, escapeVars, layoutVars, wizardVars>>

\* The handler of generate-presentation after await analyzeTemplate(...), and
\* buildPresentation up to await this.addBasicStructure(zip, slideStructure)
BuildBasic(r) ==
    /\ rpc[r] = "analyzed"
    /\ requests[r].endpoint = "generate"
    /\ IF locals[r].templateAnalysis.kind = "threw"
       THEN /\ responses' = [responses EXCEPT ![r] =
                                Append(@, generateCatch(nodeEnv, locals[r].templateAnalysis.value))]
            /\ rpc' = [rpc EXCEPT ![r] = "done"]
            /\ UNCHANGED <<packages, calls>>
       ELSE /\ calls' = [calls EXCEPT ![r] = Append(@, "buildPresentation")]
            /\ IF "slides" \notin DOMAIN locals[r].slideStructure
               THEN /\ responses' = [responses EXCEPT ![r] =
                                        Append(@, generateCatch(nodeEnv, BuildError(NoSlidesError)))]
                    /\ rpc' = [rpc EXCEPT ![r] = "done"]
                    /\ packages' = packages
               ELSE /\ packages' = [packages EXCEPT ![NewJSZip(r)] =
                                       addBasicStructure(EmptyZip, locals[r].slideStructure)]
                    /\ rpc' = [rpc EXCEPT ![r] = "addSlides"]
                    /\ responses' = responses
    /\ UNCHANGED <<nodeEnv, hits, requests, locals, archives>>
    /\ UNCHANGED <<builderVars, analyzerVars, escapeVars, layoutVars, wizardVars>>

\* buildPresentation: await this.addSlides(zip, slideStructure, templateAnalysis)
BuildSlides(r) ==
    /\ rpc[r] = "addSlides"
    /\ packages' = [packages EXCEPT ![NewJSZip(r)] =
                       addSlides(@, locals[r].slideStructure, locals[r].templateAnalysis.value)]
    /\ rpc' = [rpc EXCEPT ![r] = "generateAsync"]
    /\ UNCHANGED <<nodeEnv, hits, requests, locals, archives, responses, calls>>
    /\ UNCHANGED <<builderVars, analyzerVars, escapeVars, layoutVars, wizardVars>>

\* buildPresentation: await zip.generateAsync(...) settles; the handler sends
\* the bytes, or its catch block answers for the error buildPresentation throws
BuildGenerate(r) ==
    /\ rpc[r] = "generateAsync"
    /\ responses' = [responses EXCEPT ![r] =
                        Append(@, IF requests[r].world.serialize.ok
                                  THEN PresentationResponse(packages[NewJSZip(r)])
                                  ELSE generateCatch(nodeEnv,
                                           BuildError(requests[r].world.serialize.message)))]
    /\ rpc' = [rpc EXCEPT ![r] = "done"]
    /\ UNCHANGED <<nodeEnv, hits, requests, locals, archives, packages, calls>>
    /\ UNCHANGED <<builderVars, analyzerVars, escapeVars, layoutVars, wizardVars>>

\* The handler of analyze-template run from the upload to its answer with no
\* other request in progress
analyzeTemplateRoute(req, env) ==
    LET up == uploadSingle(req.files)
        analysis == analyzeTemplate(up.file.buffer, req.world.timestamp)
    IN  IF up.error.name # "none" THEN errorMiddleware(env, up.error)
        ELSE IF ~up.file.present THEN NoTemplateFile
        ELSE IF analysis.kind = "threw" THEN analyzeCatch(env, analysis.value)
        ELSE AnalysisResponse(analysis.value, up.file)

\* The handler of generate-presentation, likewise
generatePresentationRoute(req, env) ==
    LET up == uploadSingle(req.files)
        provider == createProvider([provider |-> req.body.llmProvider.value,
                                    apiKey |-> req.body.apiKey])
        textAnalysis == analyzeText(provider.value, req.world.analyzeText)
        structure == generateSlideStructure(provider.value, req.world.generateSlideStructure)
        templateAnalysis == analyzeTemplate(up.file.buffer, req.world.timestamp)
        presentationBuffer == buildPresentation(structure.value, up.file.buffer,
                                                templateAnalysis.value, req.world.serialize)
    IN  IF up.error.name # "none" THEN errorMiddleware(env, up.error)
        ELSE IF MissingRequiredFields(req.body, up.file) THEN MissingFields
        ELSE IF provider.kind = "threw" THEN generateCatch(env, provider.error)
        ELSE IF textAnalysis.kind = "threw" THEN generateCatch(env, textAnalysis.error)
        ELSE IF structure.kind = "threw" THEN generateCatch(env, structure.error)
        ELSE IF templateAnalysis.kind = "threw" THEN generateCatch(env, templateAnalysis.value)
        ELSE IF presentationBuffer.kind = "threw" THEN generateCatch(env, presentationBuffer)
        ELSE PresentationResponse(presentationBuffer.package)

NextServer ==
    \/ \E r \in DOMAIN rpc : RateLimit(r)
    \/ \E r \in DOMAIN rpc : Upload(r)
    \/ \E r \in DOMAIN rpc : HandleAnalyze(r)
    \/ \E r \in DOMAIN rpc : HandleGenerate(r)
    \/ \E r \in DOMAIN rpc : AnalyzeTextSettles(r)
    \/ \E r \in DOMAIN rpc : GenerateSlideStructureSettles(r)
    \/ \E r \in DOMAIN rpc : LoadAsyncSettles(r)
    \/ \E r \in DOMAIN rpc : ExtractSettles(r)
    \/ \E r \in DOMAIN rpc : RespondAnalysis(r)
    \/ \E r \in DOMAIN rpc : BuildBasic(r)
    \/ \E r \in DOMAIN rpc : BuildSlides(r)
    \/ \E r \in DOMAIN rpc : BuildGenerate(r)

---------------------------------------------------------------------------
(* escapeXml and determineLayoutType on their own *)

EscapeAlphabet == {Amp, Lt, Gt, Quot, Apos, Semi, "amp", "lt"}

NotEscaped == [done |-> FALSE, value |-> <<>>]

InitEscape ==
    /\ text \in StringsUpTo(EscapeAlphabet, MaxTextLen)
    /\ escaped = NotEscaped

\* <a:t>${this.escapeXml(title)}</a:t>
EscapeText ==
    /\ ~escaped.done
    /\ escaped' = [done |-> TRUE, value |-> escapeXml(text)]
    /\ UNCHANGED <<text, builderVars, analyzerVars, layoutVars, serverVars, wizardVars>>

LayoutAlphabet == {"ctr", "Title", "bo", "dy", "twoCol", "Tx", "x"}

InitLayoutType ==
    /\ xml \in StringsUpTo(LayoutAlphabet, MaxXmlLen)
    /\ layoutType = "unset"

\* type: this.determineLayoutType(layoutXml)
DetermineLayoutType ==
    /\ layoutType = "unset"
    /\ layoutType' = determineLayoutType(xml)
    /\ UNCHANGED <<xml, builderVars, analyzerVars, escapeVars, serverVars, wizardVars>>

---------------------------------------------------------------------------
(* The browser wizard: TextToSlidesApp of public/app.js.  The page is the   *)
(* record of the element properties the wizard reads or writes.  A text of  *)
(* the text area is [lead, core, trail]: the lengths of its leading white   *)
(* space, of what String.prototype.trim keeps, and of its trailing white    *)
(* space.  guidance, the statistics of updateTextStats and the preview of   *)
(* the template only reach the display and are left out.                    *)

\* this.llmProviders
Providers == {"openai", "anthropic", "gemini"}

Models(providerId) ==
    CASE providerId = "openai" -> <<"gpt-4-turbo", "gpt-4", "gpt-3.5-turbo">>
      [] providerId = "anthropic" -> <<"claude-3-5-sonnet-20241022", "claude-3-haiku-20240307">>
      [] providerId = "gemini" -> <<"gemini-1.5-pro", "gemini-1.5-flash">>

\* String.prototype.trim and String.prototype.length
trim(t) == [lead |-> 0, core |-> t.core, trail |-> 0]

length(t) == t.lead + t.core + t.trail

EmptyText == [lead |-> 0, core |-> 0, trail |-> 0]

MinTextLength == 100

SampleLength == 2484

\* const sampleText of loadSample
SampleText == [lead |-> 0, core |-> SampleLength, trail |-> 0]

\* The ids of the elements of class processing-step, in the order of the
\* pipeline, as sequences of characters
StepAnalyze == <<"s", "t", "e", "p", "-", "a", "n", "a", "l", "y", "z", "e">>
StepStructure == <<"s", "t", "e", "p", "-", "s", "t", "r", "u", "c", "t", "u", "r", "e">>
StepTemplate == <<"s", "t", "e", "p", "-", "t", "e", "m", "p", "l", "a", "t", "e">>
StepBuild == <<"s", "t", "e", "p", "-", "b", "u", "i", "l", "d">>

ProcessingSteps == <<StepAnalyze, StepStructure, StepTemplate, StepBuild>>

\* The characters of the ids in the order of their code units
CharOrder == <<"-", "a", "b", "c", "d", "e", "i", "l", "m", "n", "p", "r", "s", "t", "u", "y", "z">>

CharCode(c) == CHOOSE k \in 1..Len(CharOrder) : CharOrder[k] = c

\* a < b on strings: the first differing code unit decides, a proper prefix is smaller
RECURSIVE StringLess(_, _)
StringLess(a, b) ==
    IF b = <<>> THEN FALSE
    ELSE IF a = <<>> THEN TRUE
    ELSE IF Head(a) # Head(b) THEN CharCode(Head(a)) < CharCode(Head(b))
    ELSE StringLess(Tail(a), Tail(b))

\* null, as the value of appData.templateFile and of appData.templateAnalysis
NullFile == [present |-> FALSE, name |-> <<>>, size |-> 0]

NullAnalysis == [present |-> FALSE, template |-> <<>>]

\* this.appData of the constructor and of startOver
NewAppData ==
    [text |-> EmptyText, llmProvider |-> "", llmModel |-> "", apiKey |-> "",
     templateFile |-> NullFile, templateAnalysis |-> NullAnalysis]

\* The page as it is loaded: an empty form, the model list holding only
\* 'Select Model', the three buttons disabled, no processing step completed
LoadedPage ==
    [textInput |-> EmptyText,
     modelOptions |-> <<"">>,
     modelDisabled |-> TRUE,
     step1NextDisabled |-> TRUE,
     step2NextDisabled |-> TRUE,
     generateBtnDisabled |-> TRUE,
     completed |-> {},
     status |-> "processing",
     currentStep |-> 1]

\* updateTextStats: this.appData.text = text
updateTextStats(data, page) == [data EXCEPT !.text = page.textInput]

\* validateStep1
validateStep1(data, page) ==
    [page EXCEPT !.step1NextDisabled = ~(length(trim(data.text)) >= MinTextLength)]

\* validateStep2: llmProvider && llmModel && apiKey.length > 0
validateStep2(data, page) ==
    [page EXCEPT !.step2NextDisabled =
        ~(data.llmProvider # "" /\ data.llmModel # "" /\ data.apiKey # "")]

\* handleProviderChange: the model list is rebuilt, appData.llmModel is not touched
handleProviderChange(data, page, providerId) ==
    LET data1 == [data EXCEPT !.llmProvider = providerId]
        page1 == IF providerId # "" /\ providerId \in Providers
                 THEN [page EXCEPT !.modelOptions = <<"">> \o Models(providerId),
                                   !.modelDisabled = FALSE]
                 ELSE [page EXCEPT !.modelOptions = <<"">>, !.modelDisabled = TRUE]
    IN  [appData |-> data1, dom |-> validateStep2(data1, page1)]

\* removeTemplate
removeTemplate(data, page) ==
    [appData |-> [data EXCEPT !.templateFile = NullFile, !.templateAnalysis = NullAnalysis],
     dom |-> [page EXCEPT !.generateBtnDisabled = TRUE]]

\* goToStep
goToStep(page, stepNumber) == [page EXCEPT !.currentStep = stepNumber]

\* startOver: appData and the form are reset, the template is removed, the
\* status is reset, step 1 is shown and the statistics are updated
startOver(data, page) ==
    LET removed == removeTemplate(NewAppData, [page EXCEPT !.textInput = EmptyText])
        page1 == goToStep([removed.dom EXCEPT !.status = "processing"], 1)
    IN  [appData |-> updateTextStats(removed.appData, page1), dom |-> page1]

\* showProcessingStep: every step whose id is < stepId or is stepId is completed
showProcessingStep(page, stepId) ==
    [page EXCEPT !.completed =
        @ \cup {ProcessingSteps[k] : k \in {j \in 1..Len(ProcessingSteps) :
                                              \/ StringLess(ProcessingSteps[j], stepId)
                                              \/ ProcessingSteps[j] = stepId}}]

showSuccess(page) == [page EXCEPT !.status = "success"]

showError(page) == [page EXCEPT !.status = "error"]

\* /\.(pptx|potx)$/i on the tokens of a file name
IsPowerPointName(name) ==
    name # <<>> /\ name[Len(name)] \in {".pptx", ".potx", ".PPTX", ".POTX"}

MaxTemplateSize == 50 * 1024 * 1024

\* The checks of handleFileSelect: the name, then the size
FileAccepted(file) == IsPowerPointName(file.name) /\ ~(file.size > MaxTemplateSize)

\* result.analysis of the answer of POST /api/analyze-template for a file,
\* named by the file it was made for
ServerAnalysis(file) == [present |-> TRUE, template |-> file.name]

\* The files a user picks or drops
Files ==
    {[present |-> TRUE, name |-> <<"deck", ".pptx">>, size |-> 1024],
     [present |-> TRUE, name |-> <<"brand", ".POTX">>, size |-> MaxTemplateSize],
     [present |-> TRUE, name |-> <<"notes", ".txt">>, size |-> 10],
     [present |-> TRUE, name |-> <<"huge", ".pptx">>, size |-> MaxTemplateSize + 1]}

\* The texts a user types or pastes
Texts ==
    {EmptyText,
     [lead |-> 150, core |-> 0, trail |-> 0],
     [lead |-> 0, core |-> MinTextLength - 1, trail |-> 0],
     [lead |-> 1, core |-> MinTextLength - 1, trail |-> 1],
     [lead |-> 0, core |-> MinTextLength, trail |-> 0],
     [lead |-> 2, core |-> MinTextLength, trail |-> 3]}

ApiKeys == {"", "sk-1"}

\* The wizard after new TextToSlidesApp() on the loaded page
InitWizard ==
    /\ appData = updateTextStats(NewAppData, LoadedPage)
    /\ dom = LoadedPage
    /\ fetches = [sent |-> 0, inFlight |-> {}]
    /\ gpc = "idle"

\* input on #text-input
TextInput(v) ==
    /\ LET page == [dom EXCEPT !.textInput = v]
           data == updateTextStats(appData, page)
       IN  /\ appData' = data
           /\ dom' = validateStep1(data, page)
    /\ UNCHANGED <<fetches, gpc>>
    /\ UNCHANGED <<builderVars, analyzerVars, escapeVars, layoutVars, serverVars>>

\* loadSample
LoadSample ==
    /\ LET page == [dom EXCEPT !.textInput = SampleText]
           data == updateTextStats(appData, page)
       IN  /\ appData' = data
           /\ dom' = validateStep1(data, page)
    /\ UNCHANGED <<fetches, gpc>>
    /\ UNCHANGED <<builderVars, analyzerVars, escapeVars, layoutVars, serverVars>>

\* clearText
ClearText ==
    /\ LET page == [dom EXCEPT !.textInput = EmptyText]
           data == updateTextStats(appData, page)
       IN  /\ appData' = data
           /\ dom' = validateStep1(data, page)
    /\ UNCHANGED <<fetches, gpc>>
    /\ UNCHANGED <<builderVars, analyzerVars, escapeVars, layoutVars, serverVars>>

\* change on #llm-provider: one of its options is chosen
ProviderChange(providerId) ==
    /\ appData' = handleProviderChange(appData, dom, providerId).appData
    /\ dom' = handleProviderChange(appData, dom, providerId).dom
    /\ UNCHANGED <<fetches, gpc>>
    /\ UNCHANGED <<builderVars, analyzerVars, escapeVars, layoutVars, serverVars>>

\* change on #llm-model: one of its current options is chosen
ModelChange(k) ==
    /\ ~dom.modelDisabled
    /\ k \in 1..Len(dom.modelOptions)
    /\ LET data == [appData EXCEPT !.llmModel = dom.modelOptions[k]]
       IN  /\ appData' = data
           /\ dom' = validateStep2(data, dom)
    /\ UNCHANGED <<fetches, gpc>>
    /\ UNCHANGED <<builderVars, analyzerVars, escapeVars, layoutVars, serverVars>>

\* input on #api-key
ApiKeyInput(key) ==
    /\ LET data == [appData EXCEPT !.apiKey = key]
       IN  /\ appData' = data
           /\ dom' = validateStep2(data, dom)
    /\ UNCHANGED <<fetches, gpc>>
    /\ UNCHANGED <<builderVars, analyzerVars, escapeVars, layoutVars, serverVars>>

\* startOver
StartOver ==
    /\ appData' = startOver(appData, dom).appData
    /\ dom' = startOver(appData, dom).dom
    /\ UNCHANGED <<fetches, gpc>>
    /\ UNCHANGED <<builderVars, analyzerVars, escapeVars, layoutVars, serverVars>>

\* handleFileSelect: a file that passes the checks becomes the template and
\* analyzeTemplate sends it, up to its await fetch(...)
HandleFileSelect(file) ==
    /\ IF ~FileAccepted(file)
       THEN UNCHANGED <<appData, fetches>>
       ELSE /\ fetches.sent < MaxSelections
            /\ appData' = [appData EXCEPT !.templateFile = file]
            /\ fetches' = [sent |-> fetches.sent + 1,
                           inFlight |-> fetches.inFlight
                                            \cup {[id |-> fetches.sent + 1, file |-> file]}]
    /\ UNCHANGED <<dom, gpc>>
    /\ UNCHANGED <<builderVars, analyzerVars, escapeVars, layoutVars, serverVars>>

\* analyzeTemplate after await fetch(...): the answer is read and kept, or
\* the catch block runs (the request failed or the answer is not ok)
AnalyzeTemplateSettles(f, ok) ==
    /\ f \in fetches.inFlight
    /\ fetches' = [fetches EXCEPT !.inFlight = @ \ {f}]
    /\ appData' = IF ok THEN [appData EXCEPT !.templateAnalysis = ServerAnalysis(f.file)]
                  ELSE appData
    /\ dom' = [dom EXCEPT !.generateBtnDisabled = FALSE]
    /\ UNCHANGED gpc
    /\ UNCHANGED <<builderVars, analyzerVars, escapeVars, layoutVars, serverVars>>

\* removeTemplate
RemoveTemplate ==
    /\ appData' = removeTemplate(appData, dom).appData
    /\ dom' = removeTemplate(appData, dom).dom
    /\ UNCHANGED <<fetches, gpc>>
    /\ UNCHANGED <<builderVars, analyzerVars, escapeVars, layoutVars, serverVars>>

\* generatePresentation up to await fetch('/api/generate-presentation', ...),
\* on a click of the generate button
GeneratePresentation ==
    /\ gpc = "idle"
    /\ ~dom.generateBtnDisabled
    /\ dom' = showProcessingStep(goToStep(dom, 4), StepAnalyze)
    /\ gpc' = "fetch"
    /\ UNCHANGED <<appData, fetches>>
    /\ UNCHANGED <<builderVars, analyzerVars, escapeVars, layoutVars, serverVars>>

\* await fetch(...) settles: an answer that is ok starts the display of the
\* remaining steps, anything else goes to the catch block
GenerateFetchSettles(ok) ==
    /\ gpc = "fetch"
    /\ IF ok
       THEN /\ dom' = showProcessingStep(dom, StepStructure)
            /\ gpc' = "delayStructure"
       ELSE /\ dom' = showError(dom)
            /\ gpc' = "idle"
    /\ UNCHANGED <<appData, fetches>>
    /\ UNCHANGED <<builderVars, analyzerVars, escapeVars, layoutVars, serverVars>>

\* await this.delay(1000) after step-structure
StructureDelayEnds ==
    /\ gpc = "delayStructure"
    /\ dom' = showProcessingStep(dom, StepTemplate)
    /\ gpc' = "delayTemplate"
    /\ UNCHANGED <<appData, fetches>>
    /\ UNCHANGED <<builderVars, analyzerVars, escapeVars, layoutVars, serverVars>>

\* await this.delay(1000) after step-template
TemplateDelayEnds ==
    /\ gpc = "delayTemplate"
    /\ dom' = showProcessingStep(dom, StepBuild)
    /\ gpc' = "delayBuild"
    /\ UNCHANGED <<appData, fetches>>
    /\ UNCHANGED <<builderVars, analyzerVars, escapeVars, layoutVars, serverVars>>

\* await this.delay(500) after step-build
BuildDelayEnds ==
    /\ gpc = "delayBuild"
    /\ gpc' = "blob"
    /\ UNCHANGED <<appData, dom, fetches>>
    /\ UNCHANGED <<builderVars, analyzerVars, escapeVars, layoutVars, serverVars>>

\* await response.blob() settles
BlobSettles(ok) ==
    /\ gpc = "blob"
    /\ dom' = IF ok THEN showSuccess(dom) ELSE showError(dom)
    /\ gpc' = "idle"
    /\ UNCHANGED <<appData, fetches>>
    /\ UNCHANGED <<builderVars, analyzerVars, escapeVars, layoutVars, serverVars>>

\* The events of steps 1 and 2 of the wizard, and startOver
NextWizardForm ==
    \/ \E v \in Texts : TextInput(v)
    \/ LoadSample
    \/ ClearText
    \/ \E providerId \in {""} \cup Providers : ProviderChange(providerId)
    \/ \E k \in 1..Len(dom.modelOptions) : ModelChange(k)
    \/ \E key \in ApiKeys : ApiKeyInput(key)
    \/ StartOver

\* The events of steps 3 and 4 of the wizard, and startOver
NextWizardTemplate ==
    \/ \E file \in Files : HandleFileSelect(file)
    \/ \E f \in fetches.inFlight : \E ok \in BOOLEAN : AnalyzeTemplateSettles(f, ok)
    \/ RemoveTemplate
    \/ StartOver
    \/ GeneratePresentation
    \/ \E ok \in BOOLEAN : GenerateFetchSettles(ok)
    \/ StructureDelayEnds
    \/ TemplateDelayEnds
    \/ BuildDelayEnds
    \/ \E ok \in BOOLEAN : BlobSettles(ok)

---------------------------------------------------------------------------

(* Idle values of the parts a specification does not run *)

IdleAnalyzer ==
    /\ templateBuffer = [opens |-> FALSE, error |-> NoError, files |-> <<>>]
    /\ apc = "idle"
    /\ slideLayouts = <<>>
    /\ theme = <<>>
    /\ images = <<>>
    /\ analysisResult = NoAnalysis

IdleEscape ==
    /\ text = <<>>
    /\ escaped = [done |-> TRUE, value |-> <<>>]

IdleLayoutType ==
    /\ xml = <<>>
    /\ layoutType = "idle"

\* One call of buildPresentation on any slide structure within the bounds
Init == InitBuilder /\ IdleAnalyzer /\ IdleEscape /\ IdleLayoutType /\ IdleServer /\ InitWizard

Next == NextBuilder

Spec == Init /\ [][Next]_vars

\* One call of analyzeTemplate on any template within the bounds
InitSpecAnalyzer == InitAnalyzer /\ IdleBuilder /\ IdleEscape /\ IdleLayoutType /\ IdleServer /\ InitWizard

SpecAnalyzer == InitSpecAnalyzer /\ [][NextAnalyzer]_vars

\* One call of escapeXml on any text within the bounds
InitSpecEscape == InitEscape /\ IdleBuilder /\ IdleAnalyzer /\ IdleLayoutType /\ IdleServer /\ InitWizard

SpecEscape == InitSpecEscape /\ [][EscapeText]_vars

\* One call of determineLayoutType on any layout text within the bounds
InitSpecLayoutType == InitLayoutType /\ IdleBuilder /\ IdleAnalyzer /\ IdleEscape /\ IdleServer /\ InitWizard

SpecLayoutType == InitSpecLayoutType /\ [][DetermineLayoutType]_vars

\* One call of buildPresentation with any template and any template analysis
InitSpecBuild == InitBuild /\ IdleEscape /\ IdleLayoutType /\ IdleServer /\ InitWizard

SpecBuild == InitSpecBuild /\ [][BuildPresentation]_vars

\* One request to the application
InitSpecServer == InitServer /\ IdleBuilder /\ IdleAnalyzer /\ IdleEscape /\ IdleLayoutType
                      /\ InitWizard

SpecServer == InitSpecServer /\ [][NextServer]_vars

\* Several requests to the application at once
InitSpecConcurrent == InitConcurrent /\ IdleBuilder /\ IdleAnalyzer /\ IdleEscape /\ IdleLayoutType
                      /\ InitWizard

SpecConcurrent == InitSpecConcurrent /\ [][NextServer]_vars

\* The wizard on the loaded page
InitSpecWizard == InitWizard /\ IdleBuilder /\ IdleAnalyzer /\ IdleEscape /\ IdleLayoutType
                      /\ IdleServer

\* The user at steps 1 and 2
SpecWizardForm == InitSpecWizard /\ [][NextWizardForm]_vars

\* The user at steps 3 and 4, with the requests the wizard sends
SpecWizardTemplate == InitSpecWizard /\ [][NextWizardTemplate]_vars

---------------------------------------------------------------------------
(* Reading a package back: what a consumer of the returned bytes sees *)

IsDigit(c) == \E d \in 1..10 : DigitChars[d] = c

DigitValue(c) == (CHOOSE d \in 1..10 : DigitChars[d] = c) - 1

\* The number a decimal numeral denotes
RECURSIVE ParseDec(_)
ParseDec(s) == IF s = <<>> THEN 0
               ELSE 10 * ParseDec(SubSeq(s, 1, Len(s) - 1)) + DigitValue(s[Len(s)])

\* A decimal numeral without leading zero
IsNumeral(s) ==
    /\ s # <<>>
    /\ \A k \in 1..Len(s) : IsDigit(s[k])
    /\ Len(s) > 1 => s[1] # "0"

\* s is prefix, then a numeral, then suffix
HasNumber(s, prefix, suffix) ==
    /\ startsWith(s, prefix)
    /\ endsWith(s, suffix)
    /\ Len(s) > Len(prefix) + Len(suffix)
    /\ IsNumeral(SubSeq(s, Len(prefix) + 1, Len(s) - Len(suffix)))

NumberIn(s, prefix, suffix) == ParseDec(SubSeq(s, Len(prefix) + 1, Len(s) - Len(suffix)))

SlidesDir == <<"ppt", Slash, "slides", Slash>>

\* The entries of a package under ppt/slides/
SlideEntries(pkg) == {p \in DOMAIN pkg : startsWith(p, SlidesDir)}

IsSlideEntryName(p) == HasNumber(p, SlidesDir \o <<"slide">>, <<".xml">>)

SlideEntryNumber(p) == NumberIn(p, SlidesDir \o <<"slide">>, <<".xml">>)

\* The slide overrides of a content-types manifest
SlideOverridesOf(pkg) ==
    {o \in {pkg[ContentTypesPath].Override[k] : k \in 1..Len(pkg[ContentTypesPath].Override)} :
        startsWith(o.PartName, <<Slash>> \o SlidesDir)}

\* A relationship target of ppt/_rels/presentation.xml.rels is relative to ppt/
ResolveTarget(target) == <<"ppt", Slash>> \o target

Returned == bpc = "done" /\ buildResult.kind = "returned"

NSlides == Len(slideStructure.slides)

\* Pairwise distinct elements
Distinct(seq) == \A a, b \in 1..Len(seq) : a # b => seq[a] # seq[b]

\* C1: for N >= 1 slides the returned package holds exactly the slide entries
\* ppt/slides/slide1.xml .. slideN.xml, a slide-ID list of N entries with ids
\* 256 .. 256+N-1 in that order, and N presentation relationships rId1 .. rIdN;
\* the slide-ID entry at 0-based position i carries r:id rId{i+1}, and the
\* relationship rId{i+1} targets slides/slide{i+1}.xml.
C1_SlideCountRoundTrip ==
    (Returned /\ NSlides >= 1) =>
        LET pkg == buildResult.package
            ids == pkg[PresentationPath].sldIdLst
            rels == pkg[PresentationRelsPath].Relationship
        IN  /\ \A p \in SlideEntries(pkg) : IsSlideEntryName(p)
            /\ {SlideEntryNumber(p) : p \in SlideEntries(pkg)} = 1..NSlides
            /\ Cardinality(SlideEntries(pkg)) = NSlides
            /\ Len(ids) = NSlides
            /\ Len(rels) = NSlides
            /\ \A k \in 1..NSlides :
                /\ IsNumeral(ids[k].id)
                /\ ParseDec(ids[k].id) = 256 + (k - 1)
                /\ HasNumber(ids[k].rid, <<"rId">>, <<>>)
                /\ NumberIn(ids[k].rid, <<"rId">>, <<>>) = k
                /\ rels[k].Id = ids[k].rid
                /\ HasNumber(rels[k].Target, <<"slides", Slash, "slide">>, <<".xml">>)
                /\ NumberIn(rels[k].Target, <<"slides", Slash, "slide">>, <<".xml">>) = k

C1_Witness ==
    /\ Returned
    /\ NSlides = MaxSlides
    /\ Cardinality(SlideEntries(buildResult.package)) = MaxSlides

\* C2: in every returned package, each slide part declared by an Override of
\* [Content_Types].xml has an entry written at the same path.
C2_DeclaredSlidesWritten ==
    Returned =>
        \A o \in SlideOverridesOf(buildResult.package) :
            Tail(o.PartName) \in DOMAIN buildResult.package

C2_Witness ==
    /\ Returned
    /\ Cardinality(SlideOverridesOf(buildResult.package)) >= 2

\* C3: in every returned package, each entry of the slide-ID list references a
\* relationship id that exists in ppt/_rels/presentation.xml.rels, and the
\* target of that relationship is a slide entry written to the package.
C3_SlideIdsResolve ==
    Returned =>
        LET pkg == buildResult.package
            ids == pkg[PresentationPath].sldIdLst
            rels == pkg[PresentationRelsPath].Relationship
        IN  \A k \in 1..Len(ids) :
                /\ \E r \in 1..Len(rels) : rels[r].Id = ids[k].rid
                /\ \A r \in 1..Len(rels) :
                       rels[r].Id = ids[k].rid =>
                           ResolveTarget(rels[r].Target) \in SlideEntries(pkg)

C3_Witness ==
    /\ Returned
    /\ Len(buildResult.package[PresentationPath].sldIdLst) >= 2

\* C4: in every returned package the slide ids are pairwise distinct and each
\* is >= 256, and the relationship ids are pairwise distinct within _rels/.rels
\* and within ppt/_rels/presentation.xml.rels.
C4_IdsUnique ==
    Returned =>
        LET pkg == buildResult.package
            ids == pkg[PresentationPath].sldIdLst
            rels == pkg[PresentationRelsPath].Relationship
            root == pkg[RootRelsPath].Relationship
        IN  /\ \A k \in 1..Len(ids) : IsNumeral(ids[k].id) /\ ParseDec(ids[k].id) >= 256
            /\ Distinct([k \in 1..Len(ids) |-> ParseDec(ids[k].id)])
            /\ Distinct([k \in 1..Len(rels) |-> rels[k].Id])
            /\ Distinct([k \in 1..Len(root) |-> root[k].Id])

C4_Witness ==
    /\ Returned
    /\ Len(buildResult.package[PresentationPath].sldIdLst) >= 2
    /\ Len(buildResult.package[PresentationRelsPath].Relationship) >= 2

---------------------------------------------------------------------------
(* Properties of analyzeTemplate *)

Analyzed == apc = "done" /\ analysisResult.kind = "returned"

\* The positions of the listing whose entry is under ppt/slideLayouts/ and ends in .xml
LayoutPositions(files) ==
    {k \in 1..Len(files) :
        /\ startsWith(files[k].name, <<"ppt", Slash, "slideLayouts", Slash>>)
        /\ files[k].name[Len(files[k].name)] = ".xml"}

\* The n-th smallest element of a set of numbers
Nth(S, n) == CHOOSE k \in S : Cardinality({j \in S : j < k}) = n - 1

Min(a, b) == IF a < b THEN a ELSE b

\* The layout record of an entry
LayoutOf(entry) ==
    [name |-> ReplaceFirst(Basename(entry.name), ".xml", <<>>),
     type |-> determineLayoutType(entry.content)]

\* The first n layout entries of the listing, as layout records
FirstLayouts(files, n) ==
    [j \in 1..n |-> LayoutOf(files[Nth(LayoutPositions(files), j)])]

\* How many of the first n layout entries are read before a read throws
ReadBeforeFailure(files, n) ==
    CHOOSE m \in 0..n :
        /\ \A j \in 1..m : files[Nth(LayoutPositions(files), j)].readable
        /\ m < n => ~files[Nth(LayoutPositions(files), m + 1)].readable

IsLayoutRecord(l) ==
    /\ DOMAIN l = {"name", "type"}
    /\ l.type \in {"title", "content", "two-column", "basic"}

IsTheme(th) ==
    /\ DOMAIN th = {"colorScheme", "fontScheme"}
    /\ DOMAIN th.colorScheme = {"primary", "secondary", "accent", "background"}
    /\ DOMAIN th.fontScheme = {"majorFont", "minorFont"}

\* C5: for any input (bytes that are no archive, an archive without theme,
\* layout or media entries, an archive whose entries fail to read)
\* analyzeTemplate returns, no exception escapes, and the result has the four
\* top-level fields slideLayouts, theme, images and metadata populated.
C5_AnalyzerNeverThrows ==
    /\ analysisResult.kind # "threw"
    /\ apc = "done" =>
        /\ analysisResult.kind = "returned"
        /\ DOMAIN analysisResult.value = {"slideLayouts", "theme", "images", "metadata"}
        /\ \A k \in 1..Len(analysisResult.value.slideLayouts) :
               IsLayoutRecord(analysisResult.value.slideLayouts[k])
        /\ IsTheme(analysisResult.value.theme)
        /\ \A k \in 1..Len(analysisResult.value.images) :
               DOMAIN analysisResult.value.images[k] = {"name", "path", "type"}
        /\ analysisResult.value.metadata.analyzed \in BOOLEAN

C5_Witness ==
    /\ Analyzed
    /\ templateBuffer.opens
    /\ \E k \in LayoutPositions(templateBuffer.files) : ~templateBuffer.files[k].readable
    /\ \E k \in 1..Len(templateBuffer.files) :
           templateBuffer.files[k].name = ThemePath /\ ~templateBuffer.files[k].readable

\* C6: when opening the archive fails the result is exactly slideLayouts = [],
\* theme = the fixed default theme, images = [], metadata = {analyzed: false,
\* error: the message of the failure}; when opening succeeds metadata.analyzed
\* is true and metadata carries a timestamp and no error.
C6_OpenFailureResult ==
    apc = "done" =>
        IF ~templateBuffer.opens
        THEN analysisResult =
                [kind |-> "returned",
                 value |-> [slideLayouts |-> <<>>,
                            theme |-> [colorScheme |-> [primary |-> "#1f497d",
                                                        secondary |-> "#4f81bd",
                                                        accent |-> "#9cbb58",
                                                        background |-> "#ffffff"],
                                       fontScheme |-> [majorFont |-> "Calibri",
                                                       minorFont |-> "Calibri"]],
                            images |-> <<>>,
                            metadata |-> [analyzed |-> FALSE,
                                          error |-> templateBuffer.error.message]]]
        ELSE /\ analysisResult.kind = "returned"
             /\ analysisResult.value.metadata.analyzed = TRUE
             /\ DOMAIN analysisResult.value.metadata = {"analyzed", "timestamp"}
             /\ analysisResult.value.metadata.timestamp \in Timestamps

C6_Witness ==
    /\ Analyzed
    /\ ~templateBuffer.opens
    /\ analysisResult.value.metadata.analyzed = FALSE

\* C7 as claimed: extractLayouts returns at most 5 layouts, and they are the
\* first min(5, count) entries under ppt/slideLayouts/ ending in .xml, in
\* listing order, duplicates by name kept.
C7_AsClaimed ==
    (Analyzed /\ templateBuffer.opens) =>
        LET files == templateBuffer.files
            n == Min(5, Cardinality(LayoutPositions(files)))
        IN  /\ Len(analysisResult.value.slideLayouts) <= 5
            /\ analysisResult.value.slideLayouts = FirstLayouts(files, n)

\* C7 amended: extractLayouts returns at most 5 layouts.  They are the entries,
\* among the first min(5, count) entries under ppt/slideLayouts/ ending in
\* .xml, that are read before a read throws, in listing order, duplicates by
\* name kept: all min(5, count) of them when every read succeeds.  When none is
\* read (count = 0, or the first read throws) the 3-entry default list is
\* returned instead.
C7_LayoutCap ==
    (Analyzed /\ templateBuffer.opens) =>
        LET files == templateBuffer.files
            n == Min(5, Cardinality(LayoutPositions(files)))
            m == ReadBeforeFailure(files, n)
        IN  /\ Len(analysisResult.value.slideLayouts) <= 5
            /\ analysisResult.value.slideLayouts =
                  IF m = 0
                  THEN <<[name |-> <<"title">>, type |-> "title"],
                         [name |-> <<"content">>, type |-> "content"],
                         [name |-> <<"two-column">>, type |-> "two-column"]>>
                  ELSE FirstLayouts(files, m)

C7_Witness ==
    /\ Analyzed
    /\ templateBuffer.opens
    /\ Cardinality(LayoutPositions(templateBuffer.files)) > 5
    /\ \A k \in LayoutPositions(templateBuffer.files) : templateBuffer.files[k].readable
    /\ Len(analysisResult.value.slideLayouts) = 5
    /\ \E a, b \in 1..5 :
           /\ a # b
           /\ analysisResult.value.slideLayouts[a].name = analysisResult.value.slideLayouts[b].name

\* C8: an archive that opens and has no entry under ppt/slideLayouts/ ending
\* in .xml yields the default list title, content, two-column, in that order.
C8_DefaultLayouts ==
    (Analyzed /\ templateBuffer.opens /\ LayoutPositions(templateBuffer.files) = {}) =>
        analysisResult.value.slideLayouts =
            <<[name |-> <<"title">>, type |-> "title"],
              [name |-> <<"content">>, type |-> "content"],
              [name |-> <<"two-column">>, type |-> "two-column"]>>

C8_Witness ==
    /\ Analyzed
    /\ templateBuffer.opens
    /\ LayoutPositions(templateBuffer.files) = {}
    /\ Len(templateBuffer.files) >= 2
    /\ Len(analysisResult.value.slideLayouts) = 3

---------------------------------------------------------------------------
(* Properties of determineLayoutType and escapeXml *)

\* needle occurs in s
Occurs(needle, s) == \E a \in 1..Len(s) : startsWith(SubSeq(s, a, Len(s)), needle)

\* C9: a text containing ctrTitle classifies as title, also when it contains
\* the body or the two-column marker; otherwise a text containing body
\* classifies as content; otherwise a text containing twoColTx classifies as
\* two-column; a text with none of the markers classifies as basic.
C9_LayoutTypeOrder ==
    layoutType # "unset" =>
        /\ Occurs(<<"ctr", "Title">>, xml) => layoutType = "title"
        /\ (~Occurs(<<"ctr", "Title">>, xml) /\ Occurs(<<"bo", "dy">>, xml)) =>
               layoutType = "content"
        /\ (/\ ~Occurs(<<"ctr", "Title">>, xml)
            /\ ~Occurs(<<"bo", "dy">>, xml)
            /\ Occurs(<<"twoCol", "Tx">>, xml)) => layoutType = "two-column"
        /\ (/\ ~Occurs(<<"ctr", "Title">>, xml)
            /\ ~Occurs(<<"bo", "dy">>, xml)
            /\ ~Occurs(<<"twoCol", "Tx">>, xml)) => layoutType = "basic"

C9_Witness ==
    /\ layoutType = "title"
    /\ Occurs(<<"bo", "dy">>, xml)
    /\ Occurs(<<"ctr", "Title">>, xml)

EntityNames == {"amp", "lt", "gt", "quot", "apos"}

EntityChar(name) ==
    CASE name = "amp" -> "&"
      [] name = "lt" -> "<"
      [] name = "gt" -> ">"
      [] name = "quot" -> "\""
      [] name = "apos" -> "'"

\* s holds an entity reference at position k
EntityAt(s, k) ==
    /\ k + 2 <= Len(s)
    /\ s[k] = "&"
    /\ s[k + 1] \in EntityNames
    /\ s[k + 2] = ";"

\* What an XML parser makes of character data: every reference to one of the
\* five entities is replaced by its character, in one pass from the left
RECURSIVE DecodeEntities(_)
DecodeEntities(s) ==
    IF s = <<>> THEN <<>>
    ELSE IF EntityAt(s, 1)
         THEN <<EntityChar(s[2])>> \o DecodeEntities(SubSeq(s, 4, Len(s)))
         ELSE <<Head(s)>> \o DecodeEntities(Tail(s))

\* C10: for every text over an alphabet with & < > " ' (texts that look like
\* entities included) decoding the five entities in escapeXml's output gives
\* the text back, and the output holds no raw < > " ' and no & that does not
\* start one of the five entities.
C10_EscapeRoundTrip ==
    escaped.done =>
        /\ DecodeEntities(escaped.value) = text
        /\ \A k \in 1..Len(escaped.value) :
               /\ escaped.value[k] \notin {"<", ">", "\"", "'"}
               /\ escaped.value[k] = "&" => EntityAt(escaped.value, k)

C10_Witness ==
    /\ escaped.done
    /\ text = <<"&", "lt", ";", "<">>
    /\ escaped.value = <<"&", "amp", ";", "lt", ";", "&", "lt", ";">>

---------------------------------------------------------------------------
(* Properties of the generated slides *)

\* The entry of a package that holds slide k
SlideEntryAt(pkg, k) ==
    CHOOSE p \in SlideEntries(pkg) : IsSlideEntryName(p) /\ SlideEntryNumber(p) = k

\* The first n elements of arr, each after the first preceded by "\n• "
RECURSIVE JoinedWithBullets(_, _)
JoinedWithBullets(arr, n) ==
    IF n = 0 THEN <<>>
    ELSE IF n = 1 THEN arr[1]
    ELSE JoinedWithBullets(arr, n - 1) \o <<"{LF}", "{bullet}", " ">> \o arr[n]

\* The content of a slide after normalisation
NormalisedContent(content) ==
    CASE content.type = "array" -> JoinedWithBullets(content.value, Len(content.value))
      [] content.type = "string" -> content.value
      [] OTHER -> <<>>

\* t is the escaped form of plain: it decodes to plain and holds no raw
\* < > " ' and no & that does not start one of the five entities
IsEscapedFormOf(t, plain) ==
    /\ DecodeEntities(t) = plain
    /\ \A k \in 1..Len(t) :
           /\ t[k] \notin {"<", ">", "\"", "'"}
           /\ t[k] = "&" => EntityAt(t, k)

\* C11: a slide has a body shape exactly when its normalised content (an array
\* joined with "\n• ", a string as it is, nothing when missing) is non-empty;
\* the body text is then "• " followed by the escaped normalised content.
C11_BodyShape ==
    Returned =>
        \A k \in 1..NSlides :
            LET sl == buildResult.package[SlideEntryAt(buildResult.package, k)]
                content == NormalisedContent(slideStructure.slides[k].content)
            IN  /\ Len(sl.body) <= 1
                /\ Len(sl.body) = 1 <=> content # <<>>
                /\ content # <<>> =>
                       /\ sl.body[1].ph = "body"
                       /\ startsWith(sl.body[1].t, <<"{bullet}", " ">>)
                       /\ IsEscapedFormOf(SubSeq(sl.body[1].t, 3, Len(sl.body[1].t)), content)

C11_Witness ==
    /\ Returned
    /\ \E k \in 1..NSlides :
           /\ slideStructure.slides[k].content = JSArray(<< <<"A">>, <<"B", "<", "C">> >>)
           /\ buildResult.package[SlideEntryAt(buildResult.package, k)].body =
                  <<[ph |-> "body",
                     t |-> <<"{bullet}", " ", "A", "{LF}", "{bullet}", " ", "B", "&", "lt", ";", "C">>]>>
    /\ \E k \in 1..NSlides :
           /\ slideStructure.slides[k].content = JSArray(<<>>)
           /\ buildResult.package[SlideEntryAt(buildResult.package, k)].body = <<>>

\* C12: every generated slide has one title shape; its text is the escaped
\* slide.title, or "Slide k" when the title is missing or empty, k being the
\* 1-based position of the slide in the slides sequence; a slide with neither
\* title nor content is built like any other.
C12_TitleShape ==
    Returned =>
        \A k \in 1..NSlides :
            LET sl == buildResult.package[SlideEntryAt(buildResult.package, k)]
                title == slideStructure.slides[k].title
            IN  /\ sl.title.ph = "title"
                /\ IF title.type = "string" /\ title.value # <<>>
                   THEN IsEscapedFormOf(sl.title.t, title.value)
                   ELSE /\ HasNumber(sl.title.t, <<"Slide", " ">>, <<>>)
                        /\ NumberIn(sl.title.t, <<"Slide", " ">>, <<>>) = k

C12_Witness ==
    /\ Returned
    /\ NSlides >= 2
    /\ slideStructure.slides[2].title = JSUndefined
    /\ slideStructure.slides[2].content = JSUndefined
    /\ slideStructure.slides[2].slideNumber = 1
    /\ buildResult.package[SlideEntryAt(buildResult.package, 2)] =
           [title |-> [ph |-> "title", t |-> <<"Slide", " ", "2">>], body |-> <<>>]

\* C13: buildPresentation returns the package for every well-formed slide
\* structure; with zero slides the slide overrides, the slide-ID list and the
\* presentation relationships are empty and no slide entry is written.  It
\* fails only when serialization throws, with one error whose message wraps
\* the message of the cause, and then returns no bytes.
C13_BuildOutcome ==
    /\ bpc \notin {"done", "idle"} => buildResult.kind = "none"
    /\ bpc = "done" =>
        \/ /\ buildResult.kind = "returned"
           /\ buildResult.message = <<>>
           /\ {ContentTypesPath, RootRelsPath, PresentationPath, PresentationRelsPath}
                  \subseteq DOMAIN buildResult.package
           /\ NSlides = 0 =>
               /\ SlideOverridesOf(buildResult.package) = {}
               /\ Len(buildResult.package[ContentTypesPath].Override) = 1
               /\ buildResult.package[PresentationPath].sldIdLst = <<>>
               /\ buildResult.package[PresentationRelsPath].Relationship = <<>>
               /\ SlideEntries(buildResult.package) = {}
               /\ Cardinality(DOMAIN buildResult.package) = 4
        \/ /\ buildResult.kind = "threw"
           /\ buildResult.package = EmptyZip
           /\ \E e \in SerializeErrors :
                  buildResult.message = <<"Failed to build presentation: ">> \o e

C13_Witness ==
    /\ Returned
    /\ NSlides = 0
    /\ Cardinality(DOMAIN buildResult.package) = 4

---------------------------------------------------------------------------
(* Properties of the theme and the images of an analysis *)

LowerCaseSuffix(name) ==
    CASE name[Len(name)] = ".PNG" -> ".png"
      [] name[Len(name)] = ".JPG" -> ".jpg"
      [] OTHER -> name[Len(name)]

\* The positions of the listing whose entry is under ppt/media/ and ends,
\* case-insensitively, in .png, .jpg, .jpeg or .gif
ImagePositions(files) ==
    {k \in 1..Len(files) :
        /\ startsWith(files[k].name, <<"ppt", "/", "media", "/">>)
        /\ LowerCaseSuffix(files[k].name) \in {".png", ".jpg", ".jpeg", ".gif"}}

\* What follows the last "/" of a name
LastSegment(name) ==
    LET slashes == {k \in 1..Len(name) : name[k] = "/"}
    IN  SubSeq(name, IF slashes = {} THEN 1
                     ELSE 1 + CHOOSE k \in slashes : \A j \in slashes : j <= k,
               Len(name))

\* C20: for an archive that opens, images holds one record per entry under
\* ppt/media/ ending, case-insensitively, in .png, .jpg, .jpeg or .gif, in
\* listing order, without cap or deduplication; each record has name = last
\* path segment, path = full entry path, type = the extension of the entry;
\* no other entry appears.
C20_AsClaimed ==
    (Analyzed /\ templateBuffer.opens) =>
        LET files == templateBuffer.files
            imgs == analysisResult.value.images
        IN  /\ Len(imgs) = Cardinality(ImagePositions(files))
            /\ \A n \in 1..Len(imgs) :
                   LET entry == files[Nth(ImagePositions(files), n)]
                   IN  /\ imgs[n].name = LastSegment(entry.name)
                       /\ imgs[n].path = entry.name
                       /\ imgs[n].type = <<LowerCaseSuffix(entry.name)>>

\* An image record without type: the entry ppt/media/1/.png
C20_Witness ==
    /\ Analyzed
    /\ templateBuffer.opens
    /\ Len(templateBuffer.files) >= 1
    /\ templateBuffer.files[1].name = <<"ppt", "/", "media", "/", "1", "/", ".png">>
    /\ Len(analysisResult.value.images) >= 1
    /\ analysisResult.value.images[1] =
           [name |-> <<".png">>, path |-> <<"ppt", "/", "media", "/", "1", "/", ".png">>,
            type |-> <<>>]

---------------------------------------------------------------------------
(* Properties of buildPresentation with its template arguments *)

\* The package built from the same slides with bytes that are no archive as
\* template, the analysis of those bytes, and another totalSlides
ReferencePackage(slides) ==
    LET reference == CHOOSE b \in BuildTemplates : ~b.opens
    IN  buildPresentation([totalSlides |-> 0, slides |-> slides], reference,
                          analyzeTemplate(reference, "2025-01-01T00:00:00.000Z").value,
                          [ok |-> TRUE, message |-> <<>>]).package

---------------------------------------------------------------------------
(* Properties of the two endpoints *)

Done(r) == rpc[r] = "done"

\* The request was answered by the rate limiter
RateLimited(r) == responses[r] # <<>> /\ responses[r][1].status = 429

\* The request carries one file, of an allowed type and within the size limit
PassesUploadFilter(req) ==
    /\ Len(req.files) = 1
    /\ req.files[1].mimetype \in
           {"application/vnd.openxmlformats-officedocument.presentationml.presentation",
            "application/vnd.openxmlformats-officedocument.presentationml.template"}
    /\ req.files[1].size <= 52428800

\* A field of the form is missing or empty
Missing(field) == field.type = "undefined" \/ field.value = <<>>

HasRequiredFields(req) ==
    ~Missing(req.body.text) /\ ~Missing(req.body.llmProvider) /\ ~Missing(req.body.apiKey)

SupportedProvider(req) ==
    req.body.llmProvider.value \in {<<"openai">>, <<"anthropic">>, <<"gemini">>}

\* The request reaches the pipeline of generate-presentation
ReachesPipeline(r) ==
    /\ requests[r].endpoint = "generate"
    /\ ~RateLimited(r)
    /\ PassesUploadFilter(requests[r])
    /\ HasRequiredFields(requests[r])
    /\ SupportedProvider(requests[r])

IsErrorResponse(response) ==
    /\ response.status >= 400
    /\ response.type \in {"json", "text"}
    /\ "package" \notin DOMAIN response.body

\* C15: a malformed or unreadable template never makes a request fail: for any
\* uploaded file that passes the upload filter analyze-template answers with
\* success and an analysis, and in generate-presentation the analysis of the
\* template is followed by the build and never produces an error response.
C15_TemplateNeverFails ==
    \A r \in DOMAIN rpc :
        (~RateLimited(r) /\ PassesUploadFilter(requests[r])) =>
            /\ (Done(r) /\ requests[r].endpoint = "analyze") =>
                   /\ Len(responses[r]) = 1
                   /\ responses[r][1].status = 200
                   /\ responses[r][1].body.success
                   /\ DOMAIN responses[r][1].body.analysis =
                          {"slideLayouts", "theme", "images", "metadata"}
            /\ (Done(r) /\ ReachesPipeline(r)
                  /\ requests[r].world.analyzeText.kind = "json"
                  /\ requests[r].world.generateSlideStructure.kind = "json") =>
                   /\ calls[r] = <<"createProvider", "analyzeText", "generateSlideStructure",
                                   "analyzeTemplate", "buildPresentation">>
                   /\ ("slides" \in DOMAIN requests[r].world.generateSlideStructure.value
                         /\ requests[r].world.serialize.ok) =>
                          /\ Len(responses[r]) = 1
                          /\ responses[r][1].status = 200
                          /\ "package" \in DOMAIN responses[r][1].body

C15_Witness ==
    /\ Done(1)
    /\ ReachesPipeline(1)
    /\ ~requests[1].files[1].buffer.opens
    /\ locals[1].templateAnalysis.kind = "returned"
    /\ ~locals[1].templateAnalysis.value.metadata.analyzed
    /\ calls[1] # <<>>
    /\ calls[1][Len(calls[1])] = "buildPresentation"
    /\ Len(responses[1]) = 1
    /\ responses[1][1].status = 200
    /\ SlideEntries(responses[1][1].body.package) # {}

\* How often a component occurs in the calls of a request
Invocations(r, component) ==
    Cardinality({k \in 1..Len(calls[r]) : calls[r][k] = component})

\* C16: in a generate-presentation request, when analyzeText or
\* generateSlideStructure fails (the call is rejected or the reply does not
\* parse) or the build fails, the request ends with exactly one error response
\* without presentation bytes, no later step of the pipeline runs, and no
\* method of the provider is invoked more than once.
C16_FailureIsTerminal ==
    \A r \in DOMAIN rpc :
        /\ Invocations(r, "analyzeText") <= 1
        /\ Invocations(r, "generateSlideStructure") <= 1
        /\ Len(responses[r]) <= 1
        /\ (Done(r) /\ ReachesPipeline(r)) =>
            LET world == requests[r].world
                textFails == world.analyzeText.kind # "json"
                structureFails == ~textFails /\ world.generateSlideStructure.kind # "json"
                buildFails == /\ ~textFails
                              /\ ~structureFails
                              /\ \/ "slides" \notin DOMAIN world.generateSlideStructure.value
                                 \/ ~world.serialize.ok
            IN  /\ (textFails \/ structureFails \/ buildFails) =>
                       /\ Len(responses[r]) = 1
                       /\ IsErrorResponse(responses[r][1])
                /\ textFails => calls[r] = <<"createProvider", "analyzeText">>
                /\ structureFails =>
                       calls[r] = <<"createProvider", "analyzeText", "generateSlideStructure">>
                /\ buildFails =>
                       calls[r] = <<"createProvider", "analyzeText", "generateSlideStructure",
                                    "analyzeTemplate", "buildPresentation">>

C16_Witness ==
    /\ Done(1)
    /\ ReachesPipeline(1)
    /\ requests[1].world.analyzeText.kind = "notJson"
    /\ calls[1] = <<"createProvider", "analyzeText">>
    /\ Len(responses[1]) = 1
    /\ responses[1][1].status = 500
    /\ responses[1][1].body.error = "Failed to generate presentation"

\* The request is one the application must reject: a generate-presentation
\* request without text, llmProvider, apiKey or template file, an
\* analyze-template request without file, or an upload that is refused
MustBeRejected(req) ==
    \/ req.files = <<>>
    \/ ~PassesUploadFilter(req)
    \/ req.endpoint = "generate" /\ ~HasRequiredFields(req)

\* C17: such a request is rejected with an error response before any core
\* component runs: no provider is constructed or called, analyzeTemplate and
\* buildPresentation are not invoked.
C17_RejectedBeforeCore ==
    \A r \in DOMAIN rpc :
        MustBeRejected(requests[r]) =>
            /\ calls[r] = <<>>
            /\ locals[r].provider.name = "none"
            /\ archives[r] = [opens |-> FALSE, error |-> [message |-> ""], files |-> <<>>]
            /\ DOMAIN packages[r] = {}
            /\ rpc[r] \in {"arrived", "upload", "handler", "done"}
            /\ Done(r) =>
                   /\ Len(responses[r]) = 1
                   /\ IsErrorResponse(responses[r][1])

C17_Witness ==
    /\ Done(1)
    /\ requests[1].endpoint = "generate"
    /\ requests[1].body.apiKey.type = "undefined"
    /\ ~Missing(requests[1].body.text)
    /\ PassesUploadFilter(requests[1])
    /\ calls[1] = <<>>
    /\ responses[1] = <<[status |-> 400, type |-> "json",
                         body |-> [error |-> "Missing required fields",
                                   required |-> <<"text", "llmProvider", "apiKey",
                                                  "template file">>]]>>

\* The response a request gets when it is run alone
AloneResponse(req, env) ==
    IF req.endpoint = "analyze" THEN analyzeTemplateRoute(req, env)
    ELSE generatePresentationRoute(req, env)

\* C18 as claimed: under any interleaving of concurrent requests every request
\* gets the response it would get when run alone on the same inputs.
C18_AsClaimed ==
    \A r \in DOMAIN rpc :
        Done(r) => responses[r] = <<AloneResponse(requests[r], nodeEnv)>>

\* C18: under any interleaving of concurrent requests every request the rate
\* limiter lets through gets the response it would get when run alone on the
\* same inputs; the counter of the rate limiter is shared by the requests.
C18_NoInterference ==
    \A r \in DOMAIN rpc :
        (Done(r) /\ ~RateLimited(r)) => responses[r] = <<AloneResponse(requests[r], nodeEnv)>>

C18_Witness ==
    /\ \A r \in DOMAIN rpc : Done(r)
    /\ requests[1].endpoint = "generate"
    /\ requests[2].endpoint = "generate"
    /\ requests[1].world # requests[2].world
    /\ responses[1][1].status = 200
    /\ responses[2][1].status = 200
    /\ responses[1][1].body.package # responses[2][1].body.package

---------------------------------------------------------------------------
(* Properties of the sub-steps of analyzeTemplate *)

\* The archive with the entries at the given positions made readable
Repaired(buffer, positions) ==
    [buffer EXCEPT !.files =
        [k \in 1..Len(buffer.files) |->
            IF k \in positions THEN [buffer.files[k] EXCEPT !.readable = TRUE]
            ELSE buffer.files[k]]]

ThemePositions(files) == {k \in 1..Len(files) : files[k].name = ThemePath}

\* A read of one of the layout entries that extractLayouts reaches throws
LayoutReadThrows(files) ==
    LET n == Min(5, Cardinality(LayoutPositions(files)))
    IN  ReadBeforeFailure(files, n) < n

ThemeReadThrows(files) == \E k \in ThemePositions(files) : ~files[k].readable

\* C21 as claimed: when reading a layout entry throws, the first one read or a
\* later one, slideLayouts is the 3-entry default list and theme and images
\* are what they are without that error; when reading the theme entry throws,
\* theme is the default theme and slideLayouts and images are what they are
\* without that error.
C21_AsClaimed ==
    (Analyzed /\ templateBuffer.opens) =>
        LET files == templateBuffer.files
            value == analysisResult.value
            layoutsRepaired == Repaired(templateBuffer, LayoutPositions(files))
            themeRepaired == Repaired(templateBuffer, ThemePositions(files))
        IN  /\ LayoutReadThrows(files) =>
                /\ value.slideLayouts =
                      <<[name |-> <<"title">>, type |-> "title"],
                        [name |-> <<"content">>, type |-> "content"],
                        [name |-> <<"two-column">>, type |-> "two-column"]>>
                /\ value.theme = extractTheme(layoutsRepaired)
                /\ value.images = extractImages(layoutsRepaired)
            /\ ThemeReadThrows(files) =>
                /\ value.theme = [colorScheme |-> [primary |-> "#1f497d",
                                                   secondary |-> "#4f81bd",
                                                   accent |-> "#9cbb58",
                                                   background |-> "#ffffff"],
                                  fontScheme |-> [majorFont |-> "Calibri",
                                                  minorFont |-> "Calibri"]]
                /\ value.slideLayouts = extractLayouts(themeRepaired)
                /\ value.images = extractImages(themeRepaired)

\* A later read throws and the layouts read before it are returned
C21_Witness ==
    /\ Analyzed
    /\ templateBuffer.opens
    /\ LayoutReadThrows(templateBuffer.files)
    /\ templateBuffer.files[Nth(LayoutPositions(templateBuffer.files), 1)].readable
    /\ analysisResult.value.slideLayouts =
          FirstLayouts(templateBuffer.files,
                       ReadBeforeFailure(templateBuffer.files,
                                         Min(5, Cardinality(LayoutPositions(templateBuffer.files)))))
    /\ Len(analysisResult.value.slideLayouts) > 0

---------------------------------------------------------------------------
(* Properties of the placement of the slides *)

\* The structure with the same titles and contents in the same order, with
\* totalSlides 0 and every slideNumber field 0
Renumbered(structure) ==
    [totalSlides |-> 0,
     slides |-> [k \in 1..Len(structure.slides) |->
                    [structure.slides[k] EXCEPT !.slideNumber = 0]]]

\* C22: the package depends on totalSlides and on the slideNumber fields in no
\* way: it is the package built from the same slides with totalSlides and
\* every slideNumber replaced by 0; and the slide at position k (from 1) is the
\* content of the entry ppt/slides/slide{k}.xml, there being one entry per slide.
C22_PlacementByPosition ==
    Returned =>
        /\ buildResult.package =
               buildPresentation(Renumbered(slideStructure), <<>>, <<>>,
                                 [ok |-> TRUE, message |-> <<>>]).package
        /\ Cardinality(SlideEntries(buildResult.package)) = Len(slideStructure.slides)
        /\ \A k \in 1..Len(slideStructure.slides) :
               /\ \E p \in SlideEntries(buildResult.package) :
                      /\ p = <<"ppt", "/", "slides", "/", "slide">> \o Dec(k) \o <<".xml">>
                      /\ buildResult.package[p] = generateSlideXml(slideStructure.slides[k], k)

\* Two slides whose slideNumber fields are their positions reversed, under a
\* totalSlides of 3
C22_Witness ==
    /\ Returned
    /\ Len(slideStructure.slides) = 2
    /\ slideStructure.totalSlides = 3
    /\ slideStructure.slides[1].slideNumber = 2
    /\ slideStructure.slides[2].slideNumber = 1
    /\ slideStructure.slides[1].content # slideStructure.slides[2].content
    /\ buildResult.package[<<"ppt", "/", "slides", "/", "slide", "1", ".xml">>]
           = generateSlideXml(slideStructure.slides[1], 1)

---------------------------------------------------------------------------
(* Properties of the order of the steps of generate-presentation *)

Pipeline == <<"analyzeText", "generateSlideStructure", "analyzeTemplate", "buildPresentation">>

\* The steps a request has started, in the order of their start
StepsStarted(r) == SelectSeq(calls[r], LAMBDA c : c # "createProvider")

\* The step a request is waiting for, if any
StepsRunning(r) ==
    CASE rpc[r] = "analyzeText" -> {"analyzeText"}
      [] rpc[r] = "generateSlideStructure" -> {"generateSlideStructure"}
      [] rpc[r] \in {"loadAsync", "extract"} -> {"analyzeTemplate"}
      [] rpc[r] \in {"addSlides", "generateAsync"} -> {"buildPresentation"}
      [] OTHER -> {}

\* C23: the steps of a generate-presentation request start in the order
\* analyze-text, generate-structure, analyze-template, build, each at most
\* once and only when the one before it has completed successfully (its result
\* is held by the handler); the step being waited for is the last one started;
\* and a response with the presentation bytes is sent only when build, the
\* last of the four, has completed: it carries the finished package.
C23_StepsInOrder ==
    \A r \in DOMAIN rpc :
        requests[r].endpoint = "generate" =>
            LET steps == StepsStarted(r)
                world == requests[r].world
            IN  /\ Len(steps) <= 4
                /\ steps = SubSeq(Pipeline, 1, Len(steps))
                /\ Len(steps) >= 2 =>
                       /\ world.analyzeText.kind = "json"
                       /\ locals[r].textAnalysis = world.analyzeText.value
                /\ Len(steps) >= 3 =>
                       /\ world.generateSlideStructure.kind = "json"
                       /\ locals[r].slideStructure = world.generateSlideStructure.value
                /\ Len(steps) >= 4 =>
                       /\ locals[r].templateAnalysis.kind = "returned"
                       /\ rpc[r] \notin {"loadAsync", "extract", "analyzed"}
                /\ StepsRunning(r) \subseteq
                       (IF steps = <<>> THEN {} ELSE {steps[Len(steps)]})
                /\ \A k \in 1..Len(responses[r]) :
                       responses[r][k].status = 200 =>
                           /\ steps = Pipeline
                           /\ rpc[r] = "done"
                           /\ world.serialize.ok
                           /\ Cardinality(SlideEntries(responses[r][k].body.package))
                                  = Len(locals[r].slideStructure.slides)

C23_Witness ==
    /\ rpc[1] = "done"
    /\ requests[1].endpoint = "generate"
    /\ calls[1] = <<"createProvider", "analyzeText", "generateSlideStructure",
                    "analyzeTemplate", "buildPresentation">>
    /\ Len(responses[1]) = 1
    /\ responses[1][1].status = 200
    /\ Len(locals[1].slideStructure.slides) = 2

---------------------------------------------------------------------------
(* Properties of the metadata of an analysis *)

AppPropertiesPath == <<"docProps", "/", "app", ".xml">>

\* The archive has an app-properties entry that reads as text
AppPropertiesReadable(files) ==
    \E k \in 1..Len(files) : files[k].name = AppPropertiesPath /\ files[k].readable

\* C24 as claimed: when the archive opens, metadata reflects the
\* app-properties entry when that entry is present and readable (it holds
\* something besides the flag analyzed and the time of the analysis, neither
\* of which is taken from the entry), and is the empty mapping when the entry
\* is absent or unreadable.
C24_AsClaimed ==
    (Analyzed /\ templateBuffer.opens) =>
        LET metadata == analysisResult.value.metadata
        IN  IF AppPropertiesReadable(templateBuffer.files)
            THEN DOMAIN metadata \ {"analyzed", "timestamp"} # {}
            ELSE DOMAIN metadata = {}

\* An archive with an app-properties entry whose analysis holds the flag and
\* the time only
C24_Witness ==
    /\ Analyzed
    /\ templateBuffer.opens
    /\ AppPropertiesReadable(templateBuffer.files)
    /\ DOMAIN analysisResult.value.metadata = {"analyzed", "timestamp"}
    /\ analysisResult.value.metadata.analyzed = TRUE

---------------------------------------------------------------------------
(* Properties of a request that names an unknown provider *)

\* C25: a generate-presentation request whose llmProvider is not openai,
\* anthropic or gemini never has analyzeText, generateSlideStructure,
\* analyzeTemplate or buildPresentation invoked for it, holds no provider and
\* touches no archive or package, and once it is done it has exactly one
\* response, which is an error response.
C25_UnknownProvider ==
    \A r \in DOMAIN rpc :
        (requests[r].endpoint = "generate" /\ ~SupportedProvider(requests[r])) =>
            /\ \A k \in 1..Len(calls[r]) :
                   calls[r][k] \notin {"analyzeText", "generateSlideStructure",
                                       "analyzeTemplate", "buildPresentation"}
            /\ locals[r].provider.name = "none"
            /\ locals[r].templateAnalysis.kind = "none"
            /\ archives[r] = [opens |-> FALSE, error |-> [message |-> ""], files |-> <<>>]
            /\ DOMAIN packages[r] = {}
            /\ Len(responses[r]) <= 1
            /\ Done(r) =>
                   /\ Len(responses[r]) = 1
                   /\ IsErrorResponse(responses[r][1])

\* A complete request that names OpenAI with capitals is answered 500 by the
\* catch block of the handler
C25_Witness ==
    /\ Done(1)
    /\ requests[1].endpoint = "generate"
    /\ requests[1].body.llmProvider.value = <<"OpenAI">>
    /\ HasRequiredFields(requests[1])
    /\ PassesUploadFilter(requests[1])
    /\ calls[1] = <<"createProvider">>
    /\ Len(responses[1]) = 1
    /\ responses[1][1].status = 500
    /\ responses[1][1].body.error = "Failed to generate presentation"

---------------------------------------------------------------------------
(* Properties of the browser wizard *)

\* C26 as claimed: under any interleaving of handleFileSelect, removeTemplate,
\* startOver and the completions of analyzeTemplate requests, the generate
\* button is enabled only while appData.templateFile is not null.
C26_AsClaimed ==
    ~dom.generateBtnDisabled => appData.templateFile.present

\* A template was selected and removed, its analysis came back afterwards
C26_Witness ==
    /\ fetches.sent = 1
    /\ fetches.inFlight = {}
    /\ ~appData.templateFile.present
    /\ ~dom.generateBtnDisabled
    /\ gpc = "idle"

\* C27 as claimed: once no analyzeTemplate request is in flight,
\* appData.templateAnalysis is null or the analysis the server returned for
\* the file that is appData.templateFile, whatever the order in which the
\* answers to successive selections arrive.
C27_AsClaimed ==
    fetches.inFlight = {} =>
        \/ ~appData.templateAnalysis.present
        \/ /\ appData.templateFile.present
           /\ appData.templateAnalysis.template = appData.templateFile.name

\* Two files were selected one after the other, and the analysis kept is the
\* one of the first
C27_Witness ==
    /\ fetches.sent = 2
    /\ fetches.inFlight = {}
    /\ appData.templateFile.name = <<"brand", ".POTX">>
    /\ appData.templateAnalysis.present
    /\ appData.templateAnalysis.template = <<"deck", ".pptx">>

\* C28 as claimed: after any sequence of text input, loadSample, clearText and
\* startOver, the step-1 Next button is enabled only when the text of the text
\* area, which is appData.text, has at least 100 characters after trimming.
C28_AsClaimed ==
    ~dom.step1NextDisabled =>
        /\ dom.textInput.core >= 100
        /\ appData.text.core >= 100

\* After startOver the text is empty and the button is still enabled
C28_Witness ==
    /\ ~dom.step1NextDisabled
    /\ dom.textInput = [lead |-> 0, core |-> 0, trail |-> 0]
    /\ appData.text = [lead |-> 0, core |-> 0, trail |-> 0]
    /\ appData.llmProvider = ""

\* The models listed for a provider
ListedModels(providerId) ==
    CASE providerId = "openai" -> {"gpt-4-turbo", "gpt-4", "gpt-3.5-turbo"}
      [] providerId = "anthropic" -> {"claude-3-5-sonnet-20241022", "claude-3-haiku-20240307"}
      [] providerId = "gemini" -> {"gemini-1.5-pro", "gemini-1.5-flash"}
      [] OTHER -> {}

\* C29 as claimed: after any sequence of provider changes, model changes,
\* API-key input and startOver, the step-2 Next button is enabled only when
\* appData.llmProvider is a known provider, appData.apiKey is not empty and
\* appData.llmModel is one of the models listed for that provider.
C29_AsClaimed ==
    ~dom.step2NextDisabled =>
        /\ appData.llmProvider \in {"openai", "anthropic", "gemini"}
        /\ appData.apiKey # ""
        /\ appData.llmModel \in ListedModels(appData.llmProvider)

\* The provider was changed after a model of the former provider was chosen
C29_Witness ==
    /\ ~dom.step2NextDisabled
    /\ appData.llmProvider = "anthropic"
    /\ appData.llmModel = "gpt-4"
    /\ appData.apiKey # ""
    /\ dom.modelOptions = <<"", "claude-3-5-sonnet-20241022", "claude-3-haiku-20240307">>

\* The steps of the pipeline up to the k-th, as ids
PipelineIds(k) ==
    SubSeq(<<<<"s", "t", "e", "p", "-", "a", "n", "a", "l", "y", "z", "e">>,
             <<"s", "t", "e", "p", "-", "s", "t", "r", "u", "c", "t", "u", "r", "e">>,
             <<"s", "t", "e", "p", "-", "t", "e", "m", "p", "l", "a", "t", "e">>,
             <<"s", "t", "e", "p", "-", "b", "u", "i", "l", "d">>>>, 1, k)

\* C30 as claimed: the steps marked completed are, at every point, the first
\* k steps of the order step-analyze, step-structure, step-template,
\* step-build for some k: a step is completed only if every earlier one is,
\* showProcessingStep(s) marking exactly s and the steps before it.
C30_AsClaimed ==
    \E k \in 0..4 : dom.completed = {PipelineIds(k)[j] : j \in 1..k}

\* The answer of generate-presentation has arrived: step-structure is shown
\* and step-build is completed before step-template
C30_Witness ==
    /\ gpc = "delayStructure"
    /\ PipelineIds(4)[4] \in dom.completed
    /\ PipelineIds(4)[3] \notin dom.completed
    /\ PipelineIds(4)[2] \in dom.completed
    /\ PipelineIds(4)[1] \in dom.completed

=============================================================================
